---------------------------- MODULE Spec2Model ----------------------------
(***************************************************************************)
(* Model of the API test orchestrator of devnodesin/moon (scripts/):       *)
(* run_test_suite and the helpers it calls (placeholder resolution, auth   *)
(* lifecycle, response capture, transcript sanitization).                  *)
(*                                                                         *)
(* Representation.  A Python str is a sequence of atoms (TLA+ strings):    *)
(* delimiters ("/", ":", "?"), words, placeholder names ("$ULID",          *)
(* "$ACCESS_TOKEN", ...), digits and run-time values (tokens, record       *)
(* ids).  "$ULID1" is <<"$ULID", "1">>, so "$ULID" is a prefix of every    *)
(* numbered placeholder exactly as in the source text.  str.replace and    *)
(* the `in` test are the usual left-to-right substring operations on       *)
(* these sequences.  Optional[str] is a sequence too, None being the       *)
(* distinguished value None.  A dict is a sequence of [k, v] fields in     *)
(* insertion order.  A response body is a tagged JSON tree.                *)
(***************************************************************************)
EXTENDS Integers, Sequences, FiniteSets, TLC

(***************************************************************************)
(* Python values                                                           *)
(***************************************************************************)
None == <<"None">>

\* bool(x) of an Optional[str]
Truthy(x) == x # None /\ x # <<>>

\* text[i:] starts with p
IsAt(text, i, p) ==
    /\ i + Len(p) - 1 <= Len(text)
    /\ \A k \in 1..Len(p) : text[i + k - 1] = p[k]

\* p in text
StrIn(p, text) == \E i \in 1..Len(text) : IsAt(text, i, p)

RECURSIVE ReplaceFrom(_, _, _, _)
ReplaceFrom(text, i, old, new) ==
    IF i > Len(text) THEN <<>>
    ELSE IF IsAt(text, i, old)
         THEN new \o ReplaceFrom(text, i + Len(old), old, new)
         ELSE <<text[i]>> \o ReplaceFrom(text, i + 1, old, new)

\* text.replace(old, new), old non-empty
StrReplace(text, old, new) == ReplaceFrom(text, 1, old, new)

\* status.startswith("2"); a status is <<"2", "00 OK">>, <<"4", "01 ...">>, <<"ERROR">>
StartsWith2(status) == Len(status) >= 1 /\ status[1] = "2"

\* str.upper() on the one-atom method names the suites use
Upper(cmd) ==
    [i \in 1..Len(cmd) |->
        CASE cmd[i] = "post" -> "POST"
          [] cmd[i] = "get"  -> "GET"
          [] OTHER           -> cmd[i]]

(***************************************************************************)
(* dicts: sequences of fields [k |-> key atom, v |-> str]                  *)
(***************************************************************************)
NoDict == <<>>
HasKey(d, k) == \E i \in 1..Len(d) : d[i].k = k
Get(d, k) == d[CHOOSE i \in 1..Len(d) : d[i].k = k].v
Put(d, k, val) == [i \in 1..Len(d) |-> IF d[i].k = k THEN [k |-> k, v |-> val] ELSE d[i]]

(***************************************************************************)
(* json.dumps / json.loads of a request body (a dict of string values;     *)
(* nesting is flattened into the value's atoms, as the serialised text     *)
(* flattens it).  Q is the double quote.                                   *)
(***************************************************************************)
Q == "\""

RECURSIVE DumpFields(_, _)
DumpFields(d, i) ==
    IF i > Len(d) THEN <<>>
    ELSE <<Q, d[i].k, Q, ":", Q>> \o d[i].v \o <<Q>>
         \o (IF i < Len(d) THEN <<",">> ELSE <<>>)
         \o DumpFields(d, i + 1)

json_dumps(d) == <<"{">> \o DumpFields(d, 1) \o <<"}">>

\* index of the first Q at or after i (Len+1 when there is none)
RECURSIVE NextQ(_, _)
NextQ(text, i) ==
    IF i > Len(text) \/ text[i] = Q THEN i ELSE NextQ(text, i + 1)

\* parse fields from position i, which holds the opening Q of a key or "}"
RECURSIVE LoadFields(_, _)
LoadFields(text, i) ==
    IF i > Len(text) \/ text[i] # Q THEN <<>>
    ELSE LET key  == text[i + 1]
             vs   == i + 5                     \* after Q key Q : Q
             ve   == NextQ(text, vs)           \* closing Q of the value
             val  == SubSeq(text, vs, ve - 1)
             nxt  == IF ve + 1 <= Len(text) /\ text[ve + 1] = ","
                     THEN ve + 2 ELSE ve + 1
         IN  <<[k |-> key, v |-> val]>> \o LoadFields(text, nxt)

json_loads(text) == LoadFields(text, 2)


(***************************************************************************)
(* Response bodies: tagged JSON trees.  A leaf that the code reads as a    *)
(* token or an identifier is a string or null (the server's documented     *)
(* shapes); JNull also stands for "no parsed body" (response_obj None).    *)
(* The tag jt comes first, so two trees of different kinds differ at it.   *)
(***************************************************************************)
JNull == [jt |-> "null", jv |-> <<>>]
JStr(s) == [jt |-> "str", jv |-> s]
JDict(f) == [jt |-> "dict", jv |-> f]
JList(items) == [jt |-> "list", jv |-> items]

IsDict(j) == j.jt = "dict"
IsList(j) == j.jt = "list"
Has(j, key) == IsDict(j) /\ key \in DOMAIN j.jv

\* bool(response_obj)
JTruthy(j) ==
    CASE j.jt = "dict" -> DOMAIN j.jv # {}
      [] j.jt = "list" -> Len(j.jv) > 0
      [] j.jt = "str"  -> j.jv # <<>>
      [] OTHER        -> FALSE

\* the Python value of a leaf read as Optional[str]
Val(j) == IF j.jt = "str" THEN j.jv ELSE None

\* d.get(key) read as Optional[str]
GetVal(j, key) == IF Has(j, key) THEN Val(j.jv[key]) ELSE None

\* the atoms of json.dumps(body, indent=2): keys and string leaves in order
KeyOrder == <<"data", "record", "records", "items", "meta", "id", "_id", "ulid", "uuid",
              "access_token", "refresh_token", "next", "prev", "error", "ok">>

RECURSIVE JsonText(_)
RECURSIVE JsonDictText(_, _)
RECURSIVE JsonListText(_, _)
JsonText(j) ==
    CASE j.jt = "str"  -> <<Q>> \o j.jv \o <<Q>>
      [] j.jt = "dict" -> <<"{">> \o JsonDictText(j, 1) \o <<"}">>
      [] j.jt = "list" -> <<"[">> \o JsonListText(j.jv, 1) \o <<"]">>
      [] OTHER        -> <<"null">>
JsonDictText(j, i) ==
    IF i > Len(KeyOrder) THEN <<>>
    ELSE (IF Has(j, KeyOrder[i])
          THEN <<Q, KeyOrder[i], Q, ":">> \o JsonText(j.jv[KeyOrder[i]])
          ELSE <<>>) \o JsonDictText(j, i + 1)
JsonListText(items, i) ==
    IF i > Len(items) THEN <<>>
    ELSE JsonText(items[i]) \o JsonListText(items, i + 1)

(***************************************************************************)
(* types.py                                                                *)
(***************************************************************************)
InList(x, l) == \E i \in 1..Len(l) : l[i] = x

AuthState ==
    [access_token |-> None, refresh_token |-> None,
     current_username |-> None, current_password |-> None,
     all_access_tokens |-> <<>>, all_refresh_tokens |-> <<>>]

\* variant of update_access_token that appends without the membership test
update_access_token_appending(self, token) ==
    [self EXCEPT !.access_token = token,
                 !.all_access_tokens = IF Truthy(token) THEN Append(@, token) ELSE @]

update_access_token(self, token) ==
    [self EXCEPT !.access_token = token,
                 !.all_access_tokens =
                     IF Truthy(token) /\ ~InList(token, @) THEN Append(@, token) ELSE @]

\* variant of update_refresh_token that does not track the token
update_refresh_token_untracked(self, token) ==
    [self EXCEPT !.refresh_token = token]

update_refresh_token(self, token) ==
    [self EXCEPT !.refresh_token = token,
                 !.all_refresh_tokens =
                     IF Truthy(token) /\ ~InList(token, @) THEN Append(@, token) ELSE @]

update_credentials(self, username, password) ==
    [self EXCEPT !.current_username = username, !.current_password = password]

\* the cursor fields placeholders.py reads (context.prev_cursor, .next_cursor,
\* .cursors_initialized) with their defaults
CursorState ==
    [next_cursor |-> None, prev_cursor |-> None, cursors_initialized |-> FALSE]

PlaceholderContext ==
    [captured_record_id |-> None, placeholder_type |-> None,
     captured_record_ids |-> <<>>] @@ CursorState

set_record_id(self, record_id, placeholder_type) ==
    [self EXCEPT !.captured_record_id = record_id, !.placeholder_type = placeholder_type]

set_record_ids(self, record_ids) ==
    [self EXCEPT !.captured_record_ids = record_ids]

(***************************************************************************)
(* auth.py                                                                 *)
(***************************************************************************)
\* detect_password_change: the new password, or None
detect_password_change(test) ==
    IF /\ Upper(test.cmd) = <<"POST">>
       /\ StrIn(<<"/", "auth", ":", "me">>, test.endpoint)
       /\ HasKey(test.data, "old_password") /\ HasKey(test.data, "password")
    THEN Get(test.data, "password")
    ELSE None

detect_token_refresh(test) ==
    Upper(test.cmd) = <<"POST">> /\ StrIn(<<"/", "auth", ":", "refresh">>, test.endpoint)

\* variant of detect_login that takes any method
detect_login_any_method(test) == StrIn(<<"/", "auth", ":", "login">>, test.endpoint)

detect_login(test) ==
    Upper(test.cmd) = <<"POST">> /\ StrIn(<<"/", "auth", ":", "login">>, test.endpoint)

\* variant of extract_tokens_from_response that reads the top level only
extract_tokens_top_level_only(response_obj) ==
    IF ~JTruthy(response_obj) \/ ~IsDict(response_obj)
    THEN [access |-> None, refresh |-> None]
    ELSE [access  |-> GetVal(response_obj, "access_token"),
          refresh |-> GetVal(response_obj, "refresh_token")]

\* extract_tokens_from_response: [access, refresh]
extract_tokens_from_response(response_obj) ==
    IF ~JTruthy(response_obj) \/ ~IsDict(response_obj)
    THEN [access |-> None, refresh |-> None]
    ELSE LET got      == IF Has(response_obj, "data") THEN response_obj.jv["data"]
                         ELSE response_obj
             data_obj == IF IsDict(got) THEN got ELSE response_obj
         IN  [access  |-> GetVal(data_obj, "access_token"),
              refresh |-> GetVal(data_obj, "refresh_token")]

\* variant of should_relogin_after_test that does not look at the status
should_relogin_any_status(test, response_status, new_password) ==
    new_password # None

should_relogin_after_test(test, response_status, new_password) ==
    new_password # None /\ StartsWith2(response_status)

\* perform_login: a login outcome is [ok, json]: ok FALSE is any exception
\* (transport error, raise_for_status, unparseable body); the result is
\* [ok |-> FALSE] for None, else [ok |-> TRUE, st |-> AuthState]
perform_login(username, password, outcome) ==
    IF ~outcome.ok \/ ~IsDict(outcome.json) THEN [ok |-> FALSE, st |-> AuthState]
    ELSE LET token_json == outcome.json
             data_obj   == IF Has(token_json, "data") THEN token_json.jv["data"]
                           ELSE token_json
         IN  IF ~IsDict(data_obj) THEN [ok |-> FALSE, st |-> AuthState]
             ELSE LET s0 == [AuthState EXCEPT !.current_username = username,
                                              !.current_password = password]
                      a  == GetVal(data_obj, "access_token")
                      r  == GetVal(data_obj, "refresh_token")
                      s1 == IF Truthy(a) THEN update_access_token(s0, a) ELSE s0
                      s2 == IF Truthy(r) THEN update_refresh_token(s1, r) ELSE s1
                  IN  [ok |-> TRUE, st |-> s2]

relogin_with_new_password(username, new_password, outcome) ==
    perform_login(username, new_password, outcome)

(***************************************************************************)
(* placeholders.py                                                         *)
(* A test is [name, cmd, endpoint, headers, data, details, notes]; headers *)
(* is a reference into the heap of header dicts (the dict is mutated in    *)
(* place, line 25), data is a value (it is only ever rebound, lines 34,    *)
(* 72, 91, 104, 115).                                                      *)
(***************************************************************************)
\* variant of replace_auth_placeholders that substitutes whatever the
\* AuthState holds, a missing token included
replace_auth_placeholders_unguarded(test, auth_state, heap) ==
    LET h     == heap[test.headers]
        heap1 == IF h # NoDict /\ HasKey(h, "Authorization")
                 THEN [heap EXCEPT ![test.headers] =
                          Put(h, "Authorization",
                              StrReplace(Get(h, "Authorization"), <<"$ACCESS_TOKEN">>,
                                         auth_state.access_token))]
                 ELSE heap
        str   == json_dumps(test.data)
        data1 == IF test.data # NoDict /\ StrIn(<<"$REFRESH_TOKEN">>, str)
                 THEN json_loads(StrReplace(str, <<"$REFRESH_TOKEN">>,
                                            auth_state.refresh_token))
                 ELSE test.data
    IN  [test |-> [test EXCEPT !.data = data1], heap |-> heap1]

\* replace_auth_placeholders: [test, heap] after the in-place update
replace_auth_placeholders(test, auth_state, heap) ==
    LET h     == heap[test.headers]
        heap1 == IF Truthy(auth_state.access_token) /\ h # NoDict
                    /\ HasKey(h, "Authorization")
                 THEN [heap EXCEPT ![test.headers] =
                          Put(h, "Authorization",
                              StrReplace(Get(h, "Authorization"), <<"$ACCESS_TOKEN">>,
                                         auth_state.access_token))]
                 ELSE heap
        str   == json_dumps(test.data)
        data1 == IF Truthy(auth_state.refresh_token) /\ test.data # NoDict
                    /\ StrIn(<<"$REFRESH_TOKEN">>, str)
                 THEN json_loads(StrReplace(str, <<"$REFRESH_TOKEN">>,
                                            auth_state.refresh_token))
                 ELSE test.data
    IN  [test |-> [test EXCEPT !.data = data1], heap |-> heap1]

Digits == {"0", "1", "2", "3", "4", "5", "6", "7", "8", "9"}

DigitVal(d) ==
    CASE d = "0" -> 0 [] d = "1" -> 1 [] d = "2" -> 2 [] d = "3" -> 3 [] d = "4" -> 4
      [] d = "5" -> 5 [] d = "6" -> 6 [] d = "7" -> 7 [] d = "8" -> 8 [] OTHER -> 9

\* int(match)
RECURSIVE IntOf(_)
IntOf(ds) == IF ds = <<>> THEN 0
             ELSE 10 * IntOf(SubSeq(ds, 1, Len(ds) - 1)) + DigitVal(ds[Len(ds)])

\* the (\d+) group starting at position i
RECURSIVE DigitRun(_, _)
DigitRun(text, i) ==
    IF i <= Len(text) /\ text[i] \in Digits
    THEN <<text[i]>> \o DigitRun(text, i + 1) ELSE <<>>

\* re.findall(r'\$ULID(\d+)', text)
RECURSIVE FindNumbered(_, _)
FindNumbered(text, i) ==
    IF i > Len(text) THEN <<>>
    ELSE IF text[i] = "$ULID" /\ DigitRun(text, i + 1) # <<>>
         THEN <<DigitRun(text, i + 1)>>
              \o FindNumbered(text, i + 1 + Len(DigitRun(text, i + 1)))
         ELSE FindNumbered(text, i + 1)

RECURSIVE ReplaceMatches(_, _, _)
ReplaceMatches(text, matches, record_ids) ==
    IF matches = <<>> THEN text
    ELSE LET match == Head(matches)
             index == IntOf(match) - 1
             text1 == IF 0 <= index /\ index < Len(record_ids)
                      THEN StrReplace(text, <<"$ULID">> \o match, record_ids[index + 1])
                      ELSE text
         IN  ReplaceMatches(text1, Tail(matches), record_ids)

\* _replace_numbered_placeholders
replace_numbered_placeholders(text, record_ids) ==
    ReplaceMatches(text, FindNumbered(text, 1), record_ids)

\* one placeholder step of replace_record_placeholders: the endpoint and the
\* serialised body are searched independently
InEndpoint(test, ph) == test.endpoint # <<>> /\ StrIn(<<ph>>, test.endpoint)
InData(test, ph) == test.data # NoDict /\ StrIn(<<ph>>, json_dumps(test.data))
SubstEndpoint(test, ph, val) ==
    IF InEndpoint(test, ph) THEN StrReplace(test.endpoint, <<ph>>, val) ELSE test.endpoint
SubstData(test, ph, val) ==
    IF InData(test, ph) THEN json_loads(StrReplace(json_dumps(test.data), <<ph>>, val))
    ELSE test.data
Subst(test, ph, val) ==
    [test EXCEPT !.endpoint = SubstEndpoint(test, ph, val),
                 !.data = SubstData(test, ph, val)]

\* replace_record_placeholders runs four steps; each takes and returns
\* [test, used], used being the placeholder kind reported so far
\* 1. $PREV_CURSOR (lines 63-72)
PrevCursorStep(test, context) ==
    IF Truthy(context.prev_cursor)
    THEN [test |-> Subst(test, "$PREV_CURSOR", context.prev_cursor),
          used |-> IF InEndpoint(test, "$PREV_CURSOR") \/ InData(test, "$PREV_CURSOR")
                   THEN <<"$PREV_CURSOR">> ELSE None]
    ELSE [test |-> test, used |-> None]

\* 2. $NEXT_CURSOR (lines 74-92)
NextCursorStep(s, next_cursor_value) ==
    IF Truthy(next_cursor_value)
    THEN [test |-> Subst(s.test, "$NEXT_CURSOR", next_cursor_value),
          used |-> IF InEndpoint(s.test, "$NEXT_CURSOR") \/ InData(s.test, "$NEXT_CURSOR")
                   THEN <<"$NEXT_CURSOR">> ELSE s.used]
    ELSE s

\* 3. numbered placeholders (lines 94-105)
NumberedStep(s, ids) ==
    IF ids # <<>>
    THEN [test |-> [s.test EXCEPT
                      !.endpoint = IF @ # <<>>
                                   THEN replace_numbered_placeholders(@, ids) ELSE @,
                      !.data = IF @ # NoDict
                               THEN json_loads(replace_numbered_placeholders(
                                                   json_dumps(@), ids))
                               ELSE @],
          used |-> IF Truthy(s.used) THEN s.used ELSE <<"$ULID">>]
    ELSE s

\* 4. single $ULID (lines 107-116)
UlidStep(s, captured_record_id) ==
    IF Truthy(captured_record_id)
    THEN [test |-> Subst(s.test, "$ULID", captured_record_id),
          used |-> IF /\ InEndpoint(s.test, "$ULID") \/ InData(s.test, "$ULID")
                      /\ ~Truthy(s.used)
                   THEN <<"$ULID">> ELSE s.used]
    ELSE s

\* variant of replace_record_placeholders that uses the captured id for
\* $NEXT_CURSOR whenever there is no next-page cursor
replace_record_placeholders_id_fallback(test, context) ==
    UlidStep(
        NumberedStep(
            NextCursorStep(PrevCursorStep(test, context),
                           IF Truthy(context.next_cursor) THEN context.next_cursor
                           ELSE context.captured_record_id),
            context.captured_record_ids),
        context.captured_record_id)

\* replace_record_placeholders: [test, used]
replace_record_placeholders(test, context) ==
    UlidStep(
        NumberedStep(
            NextCursorStep(PrevCursorStep(test, context),
                           IF context.cursors_initialized THEN context.next_cursor
                           ELSE context.captured_record_id),
            context.captured_record_ids),
        context.captured_record_id)

\* extract_cursors_from_response: [next, prev]
extract_cursors_from_response(response_obj) ==
    IF ~JTruthy(response_obj) \/ ~IsDict(response_obj)
       \/ ~Has(response_obj, "meta") \/ ~IsDict(response_obj.jv["meta"])
    THEN [next |-> None, prev |-> None]
    ELSE [next |-> GetVal(response_obj.jv["meta"], "next"),
          prev |-> GetVal(response_obj.jv["meta"], "prev")]

\* the value a lookup step returns: hit FALSE means "fall through to the next"
Miss == [hit |-> FALSE, val |-> None]
Hit(val) == [hit |-> TRUE, val |-> val]

\* variant of ArrayPick that selects the first element of every list
ArrayPickFirst(response_obj, array_key) ==
    IF ~Has(response_obj, array_key) THEN Miss
    ELSE LET items == response_obj.jv[array_key]
         IN  IF IsList(items) /\ Len(items.jv) > 0
             THEN IF IsDict(items.jv[1]) /\ Has(items.jv[1], "id")
                  THEN Hit(Val(items.jv[1].jv["id"])) ELSE Miss
             ELSE Miss

\* the selected element of a list under array_key (lines 198-209)
ArrayPick(response_obj, array_key) ==
    IF ~Has(response_obj, array_key) THEN Miss
    ELSE LET items == response_obj.jv[array_key]
         IN  IF IsList(items) /\ Len(items.jv) > 0
             THEN LET selected_item == IF Len(items.jv) > 1 THEN items.jv[2] ELSE items.jv[1]
                  IN  IF IsDict(selected_item) /\ Has(selected_item, "id")
                      THEN Hit(Val(selected_item.jv["id"])) ELSE Miss
             ELSE Miss

\* an alternate identifier field at top level or under data (lines 218-223)
AltPick(response_obj, key) ==
    IF Has(response_obj, key) THEN Hit(Val(response_obj.jv[key]))
    ELSE IF Has(response_obj, "data") /\ IsDict(response_obj.jv["data"])
            /\ Has(response_obj.jv["data"], key)
         THEN Hit(Val(response_obj.jv["data"].jv[key]))
         ELSE Miss

\* the first hit of a sequence of lookups, None when all miss
RECURSIVE FirstHit(_)
FirstHit(picks) ==
    IF picks = <<>> THEN None
    ELSE IF Head(picks).hit THEN Head(picks).val ELSE FirstHit(Tail(picks))

\* variant of extract_record_id_from_response that looks for the alternate
\* identifier fields before the pagination cursor
extract_record_id_alternates_first(response_obj) ==
    IF ~JTruthy(response_obj) \/ ~IsDict(response_obj) THEN None
    ELSE FirstHit(<<
        IF Has(response_obj, "id") THEN Hit(Val(response_obj.jv["id"])) ELSE Miss,
        IF Has(response_obj, "data") /\ IsDict(response_obj.jv["data"])
           /\ Has(response_obj.jv["data"], "id")
        THEN Hit(Val(response_obj.jv["data"].jv["id"])) ELSE Miss,
        IF Has(response_obj, "record") /\ IsDict(response_obj.jv["record"])
           /\ Has(response_obj.jv["record"], "id")
        THEN Hit(Val(response_obj.jv["record"].jv["id"])) ELSE Miss,
        ArrayPick(response_obj, "data"),
        ArrayPick(response_obj, "records"),
        ArrayPick(response_obj, "items"),
        AltPick(response_obj, "_id"),
        AltPick(response_obj, "ulid"),
        AltPick(response_obj, "uuid"),
        IF Has(response_obj, "meta") /\ IsDict(response_obj.jv["meta"])
           /\ Truthy(GetVal(response_obj.jv["meta"], "next"))
        THEN Hit(GetVal(response_obj.jv["meta"], "next")) ELSE Miss >>)

extract_record_id_from_response(response_obj) ==
    IF ~JTruthy(response_obj) \/ ~IsDict(response_obj) THEN None
    ELSE FirstHit(<<
        IF Has(response_obj, "id") THEN Hit(Val(response_obj.jv["id"])) ELSE Miss,
        IF Has(response_obj, "data") /\ IsDict(response_obj.jv["data"])
           /\ Has(response_obj.jv["data"], "id")
        THEN Hit(Val(response_obj.jv["data"].jv["id"])) ELSE Miss,
        IF Has(response_obj, "record") /\ IsDict(response_obj.jv["record"])
           /\ Has(response_obj.jv["record"], "id")
        THEN Hit(Val(response_obj.jv["record"].jv["id"])) ELSE Miss,
        ArrayPick(response_obj, "data"),
        ArrayPick(response_obj, "records"),
        ArrayPick(response_obj, "items"),
        IF Has(response_obj, "meta") /\ IsDict(response_obj.jv["meta"])
           /\ Truthy(GetVal(response_obj.jv["meta"], "next"))
        THEN Hit(GetVal(response_obj.jv["meta"], "next")) ELSE Miss,
        AltPick(response_obj, "_id"),
        AltPick(response_obj, "ulid"),
        AltPick(response_obj, "uuid") >>)

(***************************************************************************)
(* http_client.py                                                          *)
(***************************************************************************)
RECURSIVE HeaderLines(_, _)
HeaderLines(headers, i) ==
    IF i > Len(headers) THEN <<>>
    ELSE <<" -H ", Q, headers[i].k, ": ">> \o headers[i].v \o <<Q>>
         \o HeaderLines(headers, i + 1)

\* _build_curl_command
build_curl_command(url, method, headers, data) ==
    <<"curl -s -X ">> \o method \o <<" ", Q>> \o url \o <<Q>>
    \o HeaderLines(headers, 1)
    \o (IF data # NoDict THEN <<" -d '">> \o json_dumps(data) \o <<"'">> ELSE <<>>)
    \o <<" | jq .">>

\* variant of execute_request that keeps no body it could not parse
execute_request_dropping_text(base_url, prefix, test, heap, reply) ==
    LET method   == Upper(test.cmd)
        url      == base_url \o prefix \o test.endpoint
        curl_cmd == build_curl_command(url, method, heap[test.headers], test.data)
    IN  IF reply.kind = "exception"
        THEN [curl_command |-> curl_cmd, status |-> <<"ERROR">>,
              body |-> reply.text, response_obj |-> JNull]
        ELSE IF reply.parsed
             THEN [curl_command |-> curl_cmd, status |-> reply.status,
                   body |-> JsonText(reply.json), response_obj |-> reply.json]
             ELSE [curl_command |-> curl_cmd, status |-> reply.status,
                   body |-> <<>>, response_obj |-> JNull]

\* variant of execute_request that drops the text of the exception
execute_request_dropping_exception_text(base_url, prefix, test, heap, reply) ==
    LET method   == Upper(test.cmd)
        url      == base_url \o prefix \o test.endpoint
        curl_cmd == build_curl_command(url, method, heap[test.headers], test.data)
    IN  IF reply.kind = "exception"
        THEN [curl_command |-> curl_cmd, status |-> <<"ERROR">>,
              body |-> <<>>, response_obj |-> JNull]
        ELSE IF reply.parsed
             THEN [curl_command |-> curl_cmd, status |-> reply.status,
                   body |-> JsonText(reply.json), response_obj |-> reply.json]
             ELSE [curl_command |-> curl_cmd, status |-> reply.status,
                   body |-> reply.text, response_obj |-> JNull]

\* execute_request: the server's reply is [kind, status, parsed, json, text];
\* kind "exception" is a transport failure or timeout, parsed FALSE a body
\* resp.json() rejects
execute_request(base_url, prefix, test, heap, reply) ==
    LET method   == Upper(test.cmd)
        url      == base_url \o prefix \o test.endpoint
        curl_cmd == build_curl_command(url, method, heap[test.headers], test.data)
    IN  IF reply.kind = "exception"
        THEN [curl_command |-> curl_cmd, status |-> <<"ERROR">>,
              body |-> reply.text, response_obj |-> JNull]
        ELSE IF reply.parsed
             THEN [curl_command |-> curl_cmd, status |-> reply.status,
                   body |-> JsonText(reply.json), response_obj |-> reply.json]
             ELSE [curl_command |-> curl_cmd, status |-> reply.status,
                   body |-> reply.text, response_obj |-> JNull]

(***************************************************************************)
(* formatters.py                                                           *)
(***************************************************************************)
\* the lines of one transcript entry ("~~~" stands for the code fence)
format_markdown_result(curl_cmd, status, body, test_name, details, notes) ==
    (IF Truthy(test_name) THEN << <<"### ">> \o test_name >> ELSE <<>>)
    \o (IF Truthy(details) THEN <<details>> ELSE <<>>)
    \o (IF Truthy(notes) THEN <<notes>> ELSE <<>>)
    \o << <<"~~~bash">> \o curl_cmd \o <<"~~~">>,
          <<"**Response (">> \o status \o <<"):**">>,
          <<"~~~json">> \o body \o <<"~~~">> >>

\* for token in tokens: if token: text = text.replace(token, placeholder)
RECURSIVE ReplaceAll(_, _, _)
ReplaceAll(text, tokens, placeholder) ==
    IF tokens = <<>> THEN text
    ELSE ReplaceAll(IF Truthy(Head(tokens))
                    THEN StrReplace(text, Head(tokens), placeholder) ELSE text,
                    Tail(tokens), placeholder)

\* variant of the sanitizer that hides the current tokens only
sanitize_current_tokens_only(curl_cmd, server_url, doc_url, auth_state, record_id, placeholder_type) ==
    LET s1 == StrReplace(curl_cmd, server_url, doc_url)
        s2 == ReplaceAll(s1, <<auth_state.access_token>>, <<"$ACCESS_TOKEN">>)
        s3 == ReplaceAll(s2, <<auth_state.refresh_token>>, <<"$REFRESH_TOKEN">>)
    IN  IF Truthy(record_id) /\ Truthy(placeholder_type)
        THEN StrReplace(s3, record_id, placeholder_type) ELSE s3

sanitize_curl_for_documentation(curl_cmd, server_url, doc_url, auth_state, record_id, placeholder_type) ==
    LET s1 == StrReplace(curl_cmd, server_url, doc_url)
        s2 == ReplaceAll(s1, auth_state.all_access_tokens, <<"$ACCESS_TOKEN">>)
        s3 == ReplaceAll(s2, auth_state.all_refresh_tokens, <<"$REFRESH_TOKEN">>)
    IN  IF Truthy(record_id) /\ Truthy(placeholder_type)
        THEN StrReplace(s3, record_id, placeholder_type) ELSE s3

(***************************************************************************)
(* api-test/lib/test_runner.py: helpers                                    *)
(***************************************************************************)
\* the reference of the header dict of the per-iteration copy
CopyRef == 0

\* _copy_test: a new test whose headers are a deep copy ([test, heap])
\* variant of _copy_test that shares the header dict with the original
copy_test_sharing_headers(test, heap) == [test |-> test, heap |-> heap]

copy_test(test, heap) ==
    [test |-> [test EXCEPT !.headers = CopyRef],
     heap |-> [heap EXCEPT ![CopyRef] = heap[test.headers]]]

\* _test_needs_numbered_placeholders
test_needs_numbered_placeholders(test) ==
    \/ test.endpoint # <<>> /\ FindNumbered(test.endpoint, 1) # <<>>
    \/ test.data # NoDict /\ FindNumbered(json_dumps(test.data), 1) # <<>>

\* endpoint.split('?')[0]
RECURSIVE BeforeQuery(_, _)
BeforeQuery(endpoint, i) ==
    IF i > Len(endpoint) \/ endpoint[i] = "?" THEN <<>>
    ELSE <<endpoint[i]>> \o BeforeQuery(endpoint, i + 1)

\* the text before ':' of the first '/'-separated part that has a ':'
RECURSIVE FirstColonPart(_, _, _)
FirstColonPart(path, i, start) ==
    IF i > Len(path) THEN None
    ELSE IF path[i] = "/" THEN FirstColonPart(path, i + 1, i + 1)
    ELSE IF path[i] = ":" THEN SubSeq(path, start, i - 1)
    ELSE FirstColonPart(path, i + 1, start)

\* _extract_collection_name_from_test
extract_collection_name_from_test(test) ==
    IF test.endpoint = <<>> THEN None
    ELSE FirstColonPart(BeforeQuery(test.endpoint, 1), 1, 1)

MaxCount == 10

\* the identifier of one record: the first present of id, _id, ulid, uuid
RecordId(record) ==
    IF ~IsDict(record) THEN Miss
    ELSE IF Has(record, "id") THEN Hit(Val(record.jv["id"]))
    ELSE IF Has(record, "_id") THEN Hit(Val(record.jv["_id"]))
    ELSE IF Has(record, "ulid") THEN Hit(Val(record.jv["ulid"]))
    ELSE IF Has(record, "uuid") THEN Hit(Val(record.jv["uuid"]))
    ELSE Miss

\* for record in records[:max_count]: ... (lines 267-277)
RECURSIVE CollectIds(_, _, _, _)
CollectIds(records, i, max_count, record_ids) ==
    IF i > Len(records) \/ i > max_count THEN record_ids
    ELSE LET got == RecordId(records[i])
             ids == IF got.hit THEN Append(record_ids, got.val) ELSE record_ids
         IN  IF IsDict(records[i]) /\ Len(ids) >= max_count THEN ids
             ELSE CollectIds(records, i + 1, max_count, ids)

\* the first of data, records, items holding a non-empty list decides
RECURSIVE FirstArray(_, _)
FirstArray(data, keys) ==
    IF keys = <<>> THEN <<>>
    ELSE IF Has(data, Head(keys)) /\ IsList(data.jv[Head(keys)])
            /\ Len(data.jv[Head(keys)].jv) > 0
         THEN CollectIds(data.jv[Head(keys)].jv, 1, MaxCount, <<>>)
         ELSE FirstArray(data, Tail(keys))

\* placeholders.py lines 248-261: the first of the keys that is present
\* decides, whether or not it holds a list
RECURSIVE FirstPresent(_, _, _)
FirstPresent(response_obj, keys, max_count) ==
    IF keys = <<>> THEN <<>>
    ELSE IF Has(response_obj, Head(keys))
         THEN IF IsList(response_obj.jv[Head(keys)])
              THEN CollectIds(response_obj.jv[Head(keys)].jv, 1, max_count, <<>>)
              ELSE <<>>
         ELSE FirstPresent(response_obj, Tail(keys), max_count)

extract_record_ids_from_response(response_obj, max_count) ==
    IF ~JTruthy(response_obj) \/ ~IsDict(response_obj) THEN <<>>
    ELSE FirstPresent(response_obj, <<"data", "records", "items">>, max_count)

\* _fetch_fresh_record_ids: the list call's reply is [ok, json]; ok FALSE is
\* an exception or a status other than 200
fetch_fresh_record_ids(reply) ==
    IF ~reply.ok \/ ~IsDict(reply.json) THEN <<>>
    ELSE FirstArray(reply.json, <<"data", "records", "items">>)

(***************************************************************************)
(* run_test_suite, one iteration in three steps: Resolve (copy the test    *)
(* and substitute placeholders), Execute (the HTTP call), PostProcess      *)
(* (tokens, re-login, capture, sanitize, transcript, verdict).  The two    *)
(* run_test_suite variants of the repository differ in Resolve and in the  *)
(* verdict; `runner` says which one runs.                                  *)
(***************************************************************************)
\* variant of ApplyTokens that takes the tokens of any successful response
ApplyTokensAnyTest(test_copy, response, auth_state) ==
    IF StartsWith2(response.status) /\ JTruthy(response.response_obj)
    THEN LET tok == extract_tokens_from_response(response.response_obj)
             s1  == IF Truthy(tok.access) THEN update_access_token(auth_state, tok.access)
                    ELSE auth_state
         IN  IF Truthy(tok.refresh) THEN update_refresh_token(s1, tok.refresh) ELSE s1
    ELSE auth_state

\* lines 100-113: tokens of a successful login or refresh response
ApplyTokens(test_copy, response, auth_state) ==
    IF StartsWith2(response.status) /\ JTruthy(response.response_obj)
       /\ (detect_login(test_copy) \/ detect_token_refresh(test_copy))
    THEN LET tok == extract_tokens_from_response(response.response_obj)
             s1  == IF Truthy(tok.access) THEN update_access_token(auth_state, tok.access)
                    ELSE auth_state
         IN  IF Truthy(tok.refresh) THEN update_refresh_token(s1, tok.refresh) ELSE s1
    ELSE auth_state

\* lines 116-117: is the re-login call made
ReloginDue(test_copy, response, new_password, auth_state) ==
    /\ should_relogin_after_test(test_copy, response.status, new_password)
    /\ Truthy(new_password) /\ Truthy(auth_state.current_username)

\* variant of the re-login step that keeps the tokens of before
ApplyReloginKeepingTokens(auth_state, new_password, outcome) ==
    IF relogin_with_new_password(auth_state.current_username, new_password, outcome).ok
    THEN update_credentials(auth_state, auth_state.current_username, new_password)
    ELSE auth_state

\* variant of the re-login step that takes the new password before it
\* knows whether the login succeeded
ApplyReloginEagerCredentials(auth_state, new_password, outcome) ==
    LET s0 == update_credentials(auth_state, auth_state.current_username, new_password)
        new_auth_state == relogin_with_new_password(auth_state.current_username,
                                                    new_password, outcome)
    IN  IF new_auth_state.ok /\ Truthy(new_auth_state.st.access_token)
        THEN update_access_token(s0, new_auth_state.st.access_token)
        ELSE s0

\* lines 129-132: the tokens of the new AuthState, where it has them
TakeRefreshToken(self, new_auth_state) ==
    IF Truthy(new_auth_state.refresh_token)
    THEN update_refresh_token(self, new_auth_state.refresh_token) ELSE self
TakeTokens(self, new_auth_state) ==
    TakeRefreshToken(IF Truthy(new_auth_state.access_token)
                     THEN update_access_token(self, new_auth_state.access_token)
                     ELSE self,
                     new_auth_state)

\* variant of MergeRelogin that takes the tokens and keeps the old password
MergeReloginTokensOnly(auth_state, new_password, result) ==
    IF result.ok THEN TakeTokens(auth_state, result.st) ELSE auth_state

\* lines 123-132: what the result of the re-login does to AuthState
MergeRelogin(auth_state, new_password, result) ==
    IF result.ok
    THEN TakeTokens(update_credentials(auth_state, auth_state.current_username,
                                       new_password),
                    result.st)
    ELSE auth_state

\* lines 118-132: the re-login and its effect on AuthState
ApplyRelogin(auth_state, new_password, outcome) ==
    MergeRelogin(auth_state, new_password,
                 relogin_with_new_password(auth_state.current_username, new_password,
                                           outcome))

\* lines 139-141: the id found in the response, if any, becomes the captured id
CaptureId(context, record_id) ==
    IF Truthy(record_id) THEN set_record_id(context, record_id, <<"$ULID">>) ELSE context

\* variant of Capture that takes an id only from a named test
CaptureNamedOnly(test_copy, response, context) ==
    IF /\ StartsWith2(response.status) /\ JTruthy(response.response_obj)
       /\ (StrIn(<<":", "create">>, test_copy.endpoint)
           \/ StrIn(<<":", "list">>, test_copy.endpoint))
       /\ ~Truthy(context.captured_record_id)
       /\ Truthy(test_copy.name)
    THEN CaptureId(context, extract_record_id_from_response(response.response_obj))
    ELSE context

\* variant of Capture that takes the id of every create or list response
CaptureLatest(test_copy, response, context) ==
    IF /\ StartsWith2(response.status) /\ JTruthy(response.response_obj)
       /\ (StrIn(<<":", "create">>, test_copy.endpoint)
           \/ StrIn(<<":", "list">>, test_copy.endpoint))
    THEN CaptureId(context, extract_record_id_from_response(response.response_obj))
    ELSE context

\* lines 134-141: capture of the single record id
Capture(test_copy, response, context) ==
    IF /\ StartsWith2(response.status) /\ JTruthy(response.response_obj)
       /\ (StrIn(<<":", "create">>, test_copy.endpoint)
           \/ StrIn(<<":", "list">>, test_copy.endpoint))
       /\ ~Truthy(context.captured_record_id)
    THEN CaptureId(context, extract_record_id_from_response(response.response_obj))
    ELSE context

\* variant of AppendEntry without the name check: every test is written
AppendEntryUnnamedToo(markdown_lines, test, sanitized_curl, response) ==
    markdown_lines \o (IF Truthy(test.name) THEN << <<"### ">> \o test.name >> ELSE <<>>)
    \o format_markdown_result(sanitized_curl, response.status, response.body,
                              <<>>, test.details, test.notes)

\* lines 153-162: only a named test is written to the transcript
AppendEntry(markdown_lines, test, sanitized_curl, response) ==
    IF Truthy(test.name)
    THEN markdown_lines \o format_markdown_result(sanitized_curl, response.status,
                               response.body, test.name, test.details, test.notes)
    ELSE markdown_lines

\* api-test/lib/test_runner.py lines 164-167
TrackSuccessApiTest(all_tests_passed, test, is_successful) ==
    IF Truthy(test.name) /\ ~is_successful THEN FALSE ELSE all_tests_passed

\* lib/test_runner.py lines 144-146
TrackSuccessLib(all_tests_passed, test, is_successful) ==
    IF ~is_successful THEN FALSE ELSE all_tests_passed

\* lines 86-88: the reported placeholder kind is kept in the context
KeepPlaceholderType(context, r) ==
    [test |-> r.test,
     context |-> IF Truthy(r.used) THEN [context EXCEPT !.placeholder_type = r.used]
                 ELSE context]

\* lines 85-88 (lib: 62-65): the standing context, when an id is captured
StandingResolve(test, context) ==
    IF Truthy(context.captured_record_id)
    THEN KeepPlaceholderType(context, replace_record_placeholders(test, context))
    ELSE [test |-> test, context |-> context]

\* lines 78-82: a temporary context seeded with the fresh ids
NumberedResolve(test, fresh_ids) ==
    IF fresh_ids # <<>>
    THEN replace_record_placeholders(test,
             set_record_ids(PlaceholderContext, fresh_ids)).test
    ELSE test

\* api-test line 64, on the copy c = [test, heap] of line 61
AuthOnCopy(c, auth_state) == replace_auth_placeholders(c.test, auth_state, c.heap)

\* api-test lines 61-64: the copy with auth placeholders substituted
AuthResolved(test, auth_state, heap) == AuthOnCopy(copy_test(test, heap), auth_state)

\* api-test lines 67-70, on the copy with auth placeholders substituted
NeedsFetch(test) ==
    /\ test_needs_numbered_placeholders(test)
    /\ Truthy(extract_collection_name_from_test(test))

\* api-test lines 67-70: is the side-channel list call made
FetchDue(test, auth_state, heap) == NeedsFetch(AuthResolved(test, auth_state, heap).test)

\* [test, heap, context] from a resolved [test, context] and the heap
WithHeap(r, heap) == [test |-> r.test, heap |-> heap, context |-> r.context]

\* variant of RecordResolved that keeps the fetched identifiers in the
\* standing context
RecordResolvedKeepingIds(a, context, fetch_reply) ==
    IF test_needs_numbered_placeholders(a.test)
    THEN [test |-> IF Truthy(extract_collection_name_from_test(a.test))
                   THEN NumberedResolve(a.test, fetch_fresh_record_ids(fetch_reply))
                   ELSE a.test,
          heap |-> a.heap,
          context |-> IF Truthy(extract_collection_name_from_test(a.test))
                      THEN set_record_ids(context, fetch_fresh_record_ids(fetch_reply))
                      ELSE context]
    ELSE WithHeap(StandingResolve(a.test, context), a.heap)

\* variant of RecordResolved that falls back to the standing context when
\* the side-channel call gave no identifiers
RecordResolvedFallingBack(a, context, fetch_reply) ==
    IF /\ test_needs_numbered_placeholders(a.test)
       /\ Truthy(extract_collection_name_from_test(a.test))
       /\ fetch_fresh_record_ids(fetch_reply) # <<>>
    THEN [test |-> NumberedResolve(a.test, fetch_fresh_record_ids(fetch_reply)),
          heap |-> a.heap, context |-> context]
    ELSE WithHeap(StandingResolve(a.test, context), a.heap)

\* api-test lines 67-88, on a = [test, heap] with auth placeholders substituted
RecordResolved(a, context, fetch_reply) ==
    IF test_needs_numbered_placeholders(a.test)
    THEN [test |-> IF Truthy(extract_collection_name_from_test(a.test))
                   THEN NumberedResolve(a.test, fetch_fresh_record_ids(fetch_reply))
                   ELSE a.test,
          heap |-> a.heap, context |-> context]
    ELSE WithHeap(StandingResolve(a.test, context), a.heap)

\* api-test lines 59-88: [test, heap, context]
ResolveApiTest(test, auth_state, context, heap, fetch_reply) ==
    RecordResolved(AuthResolved(test, auth_state, heap), context, fetch_reply)

\* lib lines 67-68, on r = [test, context] with record placeholders substituted
WithContext(a, context) == [test |-> a.test, heap |-> a.heap, context |-> context]
LibAuthResolved(r, auth_state, heap) ==
    WithContext(replace_auth_placeholders(r.test, auth_state, heap), r.context)

\* lib lines 61-68, on the copy c = [test, heap] of line 59
LibResolved(c, auth_state, context) ==
    LibAuthResolved(StandingResolve(c.test, context), auth_state, c.heap)

\* lib lines 57-68: record placeholders first, then auth placeholders
ResolveLib(test, auth_state, context, heap) ==
    LibResolved(copy_test(test, heap), auth_state, context)

\* "\n".join(markdown_lines)
RECURSIVE Join(_, _)
Join(lines, i) ==
    IF i > Len(lines) THEN <<>>
    ELSE lines[i] \o (IF i < Len(lines) THEN <<"\n">> ELSE <<>>) \o Join(lines, i + 1)

\* lines 173-178
TestResult(markdown_lines, all_tests_passed) ==
    [status |-> IF all_tests_passed THEN <<"success">> ELSE <<"failure">>,
     markdown |-> Join(markdown_lines, 1),
     all_tests_passed |-> all_tests_passed]

(***************************************************************************)
(* The environment: the suite under test and what the server answers       *)
(***************************************************************************)
MaxTests == 2

\* TestSuite.serverURL, .docURL, .prefix
serverURL == <<"http://server">>
docURL == <<"https://doc">>
prefix == <<"/api">>

Field(k, v) == [k |-> k, v |-> v]
Bearer == <<Field("Authorization", <<"Bearer ", "$ACCESS_TOKEN">>)>>

Test(name, cmd, endpoint, headers, data) ==
    [name |-> name, cmd |-> cmd, endpoint |-> endpoint, headers |-> headers,
     data |-> data, details |-> None, notes |-> None]

\* the declared requests a suite is made of; each comes named and unnamed
Shapes ==
    { Test(<<"login">>, <<"POST">>, <<"/", "auth", ":", "login">>, NoDict,
           <<Field("username", <<"admin">>), Field("password", <<"pw0">>)>>),
      Test(<<"refresh">>, <<"POST">>, <<"/", "auth", ":", "refresh">>, Bearer,
           <<Field("refresh_token", <<"$REFRESH_TOKEN">>)>>),
      Test(<<"passwd">>, <<"post">>, <<"/", "auth", ":", "me">>, Bearer,
           <<Field("old_password", <<"pw0">>), Field("password", <<"pw1">>)>>),
      Test(<<"create">>, <<"POST">>, <<"/", "items", ":", "create">>, Bearer,
           <<Field("title", <<"x">>)>>),
      Test(<<"get">>, <<"GET">>, <<"/", "items", "/", "$ULID", ":", "get">>, Bearer,
           NoDict),
      Test(<<"page">>, <<"GET">>,
           <<"/", "items", ":", "list", "?", "after=", "$NEXT_CURSOR", "&id=", "$ULID",
             "&before=", "$PREV_CURSOR">>,
           Bearer, NoDict),
      Test(<<"destroy">>, <<"POST">>, <<"/", "items", ":", "destroy">>, Bearer,
           <<Field("ids", <<"$ULID", "1", ",", "$ULID", "2">>),
             Field("keep", <<"$ULID">>)>>),
      Test(<<"health">>, <<"GET">>, <<"/", "health">>, NoDict, NoDict) }

Tests == Shapes \cup { [t EXCEPT !.name = <<>>] : t \in Shapes }

S200 == <<"2", "00 OK">>
S401 == <<"4", "01 Unauthorized">>

HttpJson(status, json) ==
    [kind |-> "http", status |-> status, parsed |-> TRUE, json |-> json, text |-> <<>>]
HttpText(status, text) ==
    [kind |-> "http", status |-> status, parsed |-> FALSE, json |-> JNull, text |-> text]
Exception(text) ==
    [kind |-> "exception", status |-> <<>>, parsed |-> FALSE, json |-> JNull,
     text |-> text]

Item(id) == JDict([id |-> JStr(id)])
Tokens(a, r) == JDict([access_token |-> JStr(a), refresh_token |-> JStr(r)])

\* what the server may answer to a test's request (a sequence: the
\* answers are of different shapes and are only ever picked, never compared)
Replies ==
    << Exception(<<"timed out">>),
      HttpJson(S401, JDict([error |-> JStr(<<"denied">>)])),
      HttpJson(S200, JDict([ok |-> JStr(<<"yes">>)])),
      HttpText(S200, <<"plain text">>),
      HttpJson(S200, JDict([data |-> Tokens(<<"A1">>, <<"R1">>)])),
      HttpJson(S200, JDict([access_token |-> JStr(<<"A2">>)])),
      HttpJson(S200, Item(<<"v1">>)),
      HttpJson(S200, JDict([data |-> JList(<<Item(<<"v1">>), Item(<<"v2">>)>>),
                            meta |-> JDict([next |-> JStr(<<"c2">>),
                                            prev |-> JStr(<<"c1">>)])])) >>

\* what the server may answer to a login: ok FALSE is an exception or a
\* status raise_for_status rejects; access is the access token it issued
LoginOutcomes ==
    << [ok |-> FALSE, json |-> JNull, access |-> None],
      [ok |-> TRUE, json |-> JDict([data |-> Tokens(<<"A3">>, <<"R3">>)]),
       access |-> <<"A3">>],
      [ok |-> TRUE, json |-> JDict([ok |-> JStr(<<"yes">>)]), access |-> None] >>

\* the identifiers of a collection with more records than max_count
ManyIds ==
    << <<"fa">>, <<"fb">>, <<"fc">>, <<"fd">>, <<"fe">>, <<"ff">>, <<"fg">>, <<"fh">>,
       <<"fi">>, <<"fj">>, <<"fk">> >>

\* what the server may answer to the side-channel list call: a failure
\* (exception or status other than 200), a list of records, a body without
\* identifiers, a list of more than max_count records
FetchReplies ==
    << [ok |-> FALSE, json |-> JNull],
       [ok |-> TRUE, json |-> JDict([data |-> JList(<<Item(<<"v1">>), Item(<<"v2">>)>>)])],
       [ok |-> TRUE, json |-> JDict([error |-> JStr(<<"none">>)])],
       [ok |-> TRUE, json |-> JDict([data |-> JList([n \in 1..Len(ManyIds) |->
                                                       Item(ManyIds[n])])])] >>
NoFetch == [ok |-> FALSE, json |-> JNull]

\* the auth_state argument: None (an empty AuthState) or the result of the
\* suite's initial perform_login
InitialAuth ==
    { AuthState,
      perform_login(<<"admin">>, <<"pw0">>,
          [ok |-> TRUE, json |-> JDict([data |-> Tokens(<<"A0">>, <<"R0">>)])]).st }

NoTest == Test(<<>>, <<>>, <<>>, CopyRef, NoDict)
NoResponse == [curl_command |-> <<>>, status |-> <<>>, body |-> <<>>, response_obj |-> JNull]
NoResult == TestResult(<<>>, TRUE)

Call(op, i, arg) == [op |-> op, i |-> i, arg |-> arg]
Event(f, e) == [file |-> f, event |-> e]

VARIABLES
    runner,                 \* "api-test" or "lib": which run_test_suite runs
    suite,                  \* test_suite.tests; headers are heap references
    heap,                   \* header dicts by reference
    auth_state,
    placeholder_context,
    markdown_lines,
    all_tests_passed,
    idx,                    \* position of the loop in suite (1-based)
    pc,                     \* "resolve", "execute", "post", "done"
    test_copy,
    new_password,
    response,
    sanitized_curl,
    result,                 \* the returned TestResult
    heap0,                  \* history: the heap as declared
    calls,                  \* history: the external calls made, in order
    last_relogin,           \* history: "none", "failed", "ok": the login made by
                            \* the last iteration (or before the first one)
    relogin_token,          \* history: access token of the last successful re-login
                            \* not yet replaced by a later login or refresh
    args,                   \* the arguments of a library function that is called
                            \* on its own (LibSpec)
    ret,                    \* the value that call returned
    files,                  \* main: the suite files given, as loading finds them
    file,                   \* main: position of the loop in files (1-based);
                            \* 0: run_test_suite is given no output file
    log                     \* history: what was reported and written, in order

vars == <<runner, suite, heap, auth_state, placeholder_context, markdown_lines,
          all_tests_passed, idx, pc, test_copy, new_password, response,
          sanitized_curl, result, heap0, calls, last_relogin, relogin_token, args, ret,
          files, file, log>>

\* the state at the start of run_test_suite (lines 52-57)
Init ==
    /\ runner \in {"api-test", "lib"}
    /\ \E n \in 0..MaxTests : \E declared \in [1..n -> Tests] :
          /\ suite = [i \in 1..n |-> [declared[i] EXCEPT !.headers = i]]
          /\ heap = [r \in 0..MaxTests |->
                        IF r \in 1..n THEN declared[r].headers ELSE NoDict]
    /\ heap0 = heap
    /\ auth_state \in InitialAuth
    /\ placeholder_context = PlaceholderContext
    /\ markdown_lines = <<>>
    /\ all_tests_passed = TRUE
    /\ idx = 1
    /\ pc = "resolve"
    /\ test_copy = NoTest
    /\ new_password = None
    /\ response = NoResponse
    /\ sanitized_curl = <<>>
    /\ result = NoResult
    /\ calls = <<>>
    /\ last_relogin = "none"
    /\ relogin_token = None
    /\ args = <<>>
    /\ ret = None
    /\ files = <<>> /\ file = 0 /\ log = <<>>

\* the side-channel answers the current test can get: 0 stands for "no
\* call is made"
FetchChoices ==
    IF runner = "api-test" /\ FetchDue(suite[idx], auth_state, heap)
    THEN DOMAIN FetchReplies ELSE {0}

\* the resolved copy of the current test (lines 59-88), given the answer f
Resolved(f) ==
    IF runner = "api-test"
    THEN ResolveApiTest(suite[idx], auth_state, placeholder_context, heap,
                        IF f = 0 THEN NoFetch ELSE FetchReplies[f])
    ELSE ResolveLib(suite[idx], auth_state, placeholder_context, heap)

\* the collection the side-channel call lists (lines 69-76)
FetchCollection ==
    extract_collection_name_from_test(AuthResolved(suite[idx], auth_state, heap).test)

\* lines 59-91, with r = [test, heap, context] the resolved copy
ResolveTo(r, f) ==
    /\ test_copy' = r.test
    /\ heap' = r.heap
    /\ placeholder_context' = r.context
    /\ new_password' = detect_password_change(r.test)
    /\ calls' = IF f = 0 THEN calls
                ELSE Append(calls, Call("fetch", idx,
                                        <<FetchCollection,
                                          fetch_fresh_record_ids(FetchReplies[f])>>))

Resolve ==
    /\ pc = "resolve" /\ idx <= Len(suite)
    /\ \E f \in FetchChoices : ResolveTo(Resolved(f), f)
    /\ pc' = "execute"
    /\ UNCHANGED <<runner, suite, auth_state, markdown_lines, all_tests_passed, idx,
                   response, sanitized_curl, result, heap0, last_relogin, relogin_token,
                   args, ret, files, file, log>>

\* lines 93-98
ExecuteTo(r) ==
    /\ response' = r
    /\ calls' = Append(calls, Call("execute", idx, <<r.status>>))

Execute ==
    /\ pc = "execute"
    /\ \E k \in DOMAIN Replies :
          ExecuteTo(execute_request(serverURL, prefix, test_copy, heap, Replies[k]))
    /\ pc' = "post"
    /\ UNCHANGED <<runner, suite, heap, auth_state, placeholder_context, markdown_lines,
                   all_tests_passed, idx, test_copy, new_password, sanitized_curl,
                   result, heap0, last_relogin, relogin_token, args, ret, files, file, log>>

\* lines 153-167 and the history: auth1 is AuthState after lines 100-113,
\* auth2 after lines 115-132, o the answer to the re-login (0: none made)
Record(auth1, auth2, context1, sanitized, o) ==
    /\ auth_state' = auth2
    /\ placeholder_context' = context1
    /\ sanitized_curl' = sanitized
    /\ markdown_lines' = AppendEntry(markdown_lines, suite[idx], sanitized, response)
    /\ all_tests_passed' =
          IF runner = "api-test"
          THEN TrackSuccessApiTest(all_tests_passed, suite[idx],
                                   StartsWith2(response.status))
          ELSE TrackSuccessLib(all_tests_passed, suite[idx],
                               StartsWith2(response.status))
    /\ calls' = IF o = 0 THEN calls
                ELSE Append(calls, Call("login", idx,
                                        <<auth1.current_username, new_password>>))
    /\ last_relogin' = IF o = 0 THEN "none"
                       ELSE IF LoginOutcomes[o].ok THEN "ok" ELSE "failed"
    /\ relogin_token' =
          IF o # 0 /\ LoginOutcomes[o].ok /\ Truthy(LoginOutcomes[o].access)
          THEN LoginOutcomes[o].access
          ELSE IF auth1.access_token # auth_state.access_token THEN None
          ELSE relogin_token

\* lines 143-151
Sanitize(auth1, auth2, context1, o) ==
    Record(auth1, auth2, context1,
           sanitize_curl_for_documentation(response.curl_command, serverURL, docURL,
               auth2, context1.captured_record_id, context1.placeholder_type),
           o)

\* lines 115-141, given the answer o to the re-login
Relogin(auth1, o) ==
    Sanitize(auth1,
             IF o = 0 THEN auth1 ELSE ApplyRelogin(auth1, new_password, LoginOutcomes[o]),
             Capture(test_copy, response, placeholder_context),
             o)

\* the answers the re-login can get: 0 stands for "no re-login is made"
ReloginChoices(auth1) ==
    IF ReloginDue(test_copy, response, new_password, auth1)
    THEN DOMAIN LoginOutcomes ELSE {0}

\* lines 100-167, with auth1 = AuthState after lines 100-113
AfterTokens(auth1) == \E o \in ReloginChoices(auth1) : Relogin(auth1, o)

PostProcess ==
    /\ pc = "post"
    /\ AfterTokens(ApplyTokens(test_copy, response, auth_state))
    /\ idx' = idx + 1
    /\ pc' = "resolve"
    /\ UNCHANGED <<runner, suite, heap, test_copy, new_password, response, result, heap0,
                   args, ret, files, file, log>>

\* lines 169-171: write_markdown_output writes the file, if one is given
WriteOutput == log' = IF file > 0 THEN Append(log, Event(file, "written")) ELSE log

\* variant of Finish that may return before the last test
FinishEarly ==
    /\ pc = "resolve"
    /\ WriteOutput
    /\ result' = TestResult(markdown_lines, all_tests_passed)
    /\ pc' = "done"
    /\ UNCHANGED <<runner, suite, heap, auth_state, placeholder_context, markdown_lines,
                   all_tests_passed, idx, test_copy, new_password, response,
                   sanitized_curl, heap0, calls, last_relogin, relogin_token, args, ret,
                   files, file>>

\* lines 169-178: the loop is over, the output file is written and the
\* TestResult is returned
Finish ==
    /\ pc = "resolve" /\ idx > Len(suite)
    /\ WriteOutput
    /\ result' = TestResult(markdown_lines, all_tests_passed)
    /\ pc' = "done"
    /\ UNCHANGED <<runner, suite, heap, auth_state, placeholder_context, markdown_lines,
                   all_tests_passed, idx, test_copy, new_password, response,
                   sanitized_curl, heap0, calls, last_relogin, relogin_token, args, ret,
                   files, file>>

Next == Resolve \/ Execute \/ PostProcess \/ Finish

Spec == Init /\ [][Next]_vars

\* the loop is sequential code and every call it makes returns (the HTTP
\* calls carry timeouts): until run_test_suite has returned, control moves on.
\* Every step of Next changes pc, and some step of Next is possible in every
\* state but the final one.
Advance == pc # "done" /\ pc' \in {"resolve", "execute", "post", "done"}
FairSpec == Spec /\ WF_pc(Advance)

(***************************************************************************)
(* The library functions called on their own: a call takes its arguments   *)
(* from args and leaves its return value in ret; the variables of          *)
(* run_test_suite stay as they are at its start.                           *)
(***************************************************************************)
\* the requests the placeholder functions are called on
PlaceholderTests ==
    { Test(<<"next">>, <<"GET">>,
           <<"/", "items", ":", "list", "?", "after=", "$NEXT_CURSOR">>, CopyRef, NoDict),
      Test(<<"page">>, <<"GET">>,
           <<"/", "items", ":", "list", "?", "after=", "$NEXT_CURSOR", "&id=", "$ULID">>,
           CopyRef, NoDict),
      Test(<<"query">>, <<"POST">>, <<"/", "items", ":", "query">>, CopyRef,
           <<Field("after", <<"$NEXT_CURSOR">>), Field("before", <<"$PREV_CURSOR">>)>>),
      Test(<<"third">>, <<"GET">>,
           <<"/", "items", "/", "$ULID", "3", ":", "get", "?", "after=", "$NEXT_CURSOR">>,
           CopyRef, NoDict),
      Test(<<"destroy">>, <<"POST">>, <<"/", "items", ":", "destroy">>, CopyRef,
           <<Field("ids", <<"$ULID", "1", ",", "$ULID", "2">>),
             Field("keep", <<"$ULID">>)>>),
      Test(<<"update">>, <<"POST">>, <<"/", "items", "/", "$ULID", "2", ":", "update">>,
           CopyRef, <<Field("other", <<"$ULID", "3">>)>>) }

\* the contexts they are called with: cursors are only held once initialized
Contexts ==
    { c \in [captured_record_id : {None, <<"v1">>}, placeholder_type : {None},
             captured_record_ids : {<<>>, << <<"w1">> >>, << <<"w1">>, <<"w2">> >>},
             next_cursor : {None, <<"c2">>}, prev_cursor : {None, <<"c1">>},
             cursors_initialized : BOOLEAN] :
        ~c.cursors_initialized => (c.next_cursor = None /\ c.prev_cursor = None) }

\* the parsed bodies extract_record_id_from_response is called on (a
\* sequence: bodies of different shapes are only ever picked); every
\* identifier occurs once in a body
NoId == JDict([ok |-> JStr(<<"yes">>)])
ExtractBodies ==
    << JDict([data |-> JList(<<Item(<<"u1">>), Item(<<"u2">>)>>)]),
       JDict([data |-> JList(<<Item(<<"u1">>)>>)]),
       JDict([data |-> JList(<<Item(<<"u1">>), Item(<<"u2">>), Item(<<"u3">>)>>)]),
       JDict([records |-> JList(<<Item(<<"u1">>), Item(<<"u2">>)>>)]),
       JDict([items |-> JList(<<Item(<<"u1">>)>>)]),
       JDict([data |-> JList(<<Item(<<"u1">>), NoId>>)]),
       JDict([data |-> JList(<<Item(<<"u1">>), NoId>>),
              items |-> JList(<<Item(<<"u3">>), Item(<<"u4">>)>>)]),
       JDict([id |-> JStr(<<"u0">>),
              data |-> JList(<<Item(<<"u1">>), Item(<<"u2">>)>>)]),
       JDict([data |-> JList(<<>>),
              records |-> JList(<<Item(<<"u1">>), Item(<<"u2">>)>>)]),
       JDict([data |-> JList(<<Item(<<"u1">>), NoId>>),
              meta |-> JDict([next |-> JStr(<<"c2">>)])]),
       JDict([data |-> JList(<<NoId, Item(<<"u2">>)>>)]),
       JList(<<Item(<<"u1">>), Item(<<"u2">>)>>),
       JDict([data |-> Item(<<"u5">>)]),
       JDict([id |-> JStr(<<"u0">>), data |-> Item(<<"u5">>)]),
       JDict([data |-> Item(<<"u5">>), record |-> Item(<<"u6">>)]),
       JDict([record |-> Item(<<"u6">>),
              items |-> JList(<<Item(<<"u1">>), Item(<<"u2">>)>>)]),
       JDict([items |-> JList(<<Item(<<"u1">>), Item(<<"u2">>)>>),
              meta |-> JDict([next |-> JStr(<<"c2">>)])]),
       JDict([meta |-> JDict([next |-> JStr(<<"c2">>)]), _id |-> JStr(<<"u7">>)]),
       JDict([meta |-> JDict([prev |-> JStr(<<"c1">>)]), ulid |-> JStr(<<"u8">>)]),
       JDict([data |-> JDict([_id |-> JStr(<<"u7">>)]), ulid |-> JStr(<<"u8">>)]),
       JDict([data |-> JDict([uuid |-> JStr(<<"u9">>)])]),
       NoId >>

\* the requests, URLs, token histories and captured ids the sanitizer is
\* called on; a display URL may extend the server URL
History(access, refresh) ==
    [AuthState EXCEPT !.all_access_tokens = access, !.all_refresh_tokens = refresh,
                      !.access_token = IF access = <<>> THEN None ELSE access[Len(access)],
                      !.refresh_token = IF refresh = <<>> THEN None ELSE refresh[Len(refresh)]]
SanitizeArgs ==
    [curl_cmd :
        { build_curl_command(serverURL \o prefix \o <<"/", "items", "/", "v1", ":", "get">>,
              <<"GET">>, <<Field("Authorization", <<"Bearer ", "A1">>)>>, NoDict),
          build_curl_command(serverURL \o prefix \o <<"/", "auth", ":", "refresh">>,
              <<"POST">>, <<Field("Authorization", <<"Bearer ", "A0">>)>>,
              <<Field("refresh_token", <<"R1">>)>>),
          build_curl_command(serverURL \o prefix \o <<"/", "health">>,
              <<"GET">>, NoDict, NoDict) },
     server_url : {serverURL},
     doc_url : {docURL, serverURL \o <<":6006">>},
     auth_state : { History(a, r) :
                      a \in {<<>>, << <<"A0">> >>, << <<"A0">>, <<"A1">> >>},
                      r \in {<<>>, << <<"R1">> >>} },
     record_id : {None, <<"v1">>},
     placeholder_type : {None, <<"$ULID">>, <<"$NEXT_CURSOR">>}]

\* the texts and identifier lists _replace_numbered_placeholders is called on
NumberedTexts ==
    { <<"/", "items", "/", "$ULID", "1", ":", "get">>,
      <<"/", "items", "/", "$ULID", "1", "0", ":", "get">>,
      <<"$ULID", "1", ",", "$ULID", "1", "0">>,
      <<"$ULID", "1", "0", ",", "$ULID", "1">>,
      <<"$ULID", "2", ",", "$ULID", "1", ",", "$ULID", "2">>,
      <<"$ULID", "2", ",", "$ULID", "1", "2">>,
      <<"$ULID", "0", ",", "$ULID", "3">>,
      <<"$ULID", ",", "$ULID", "2">>,
      <<"/", "items", ":", "list">> }
TenIds ==
    << <<"ida">>, <<"idb">>, <<"idc">>, <<"idd">>, <<"ide">>, <<"idf">>, <<"idg">>,
       <<"idh">>, <<"idi">>, <<"idj">> >>
IdLists == { SubSeq(TenIds, 1, n) : n \in {0, 1, 2, 3, 10} }

\* the requests the detect_ functions of auth.py are called on
Requests ==
    { Test(<<"t">>, cmd, <<"/", "auth", ":", action>> \o query, CopyRef, data) :
        cmd \in {<<"POST">>, <<"post">>, <<"GET">>},
        action \in {"login", "refresh", "me", "logout"},
        query \in {<<>>, <<"?", "verbose">>},
        data \in { NoDict,
                   <<Field("old_password", <<"pw0">>), Field("password", <<"pw1">>)>>,
                   <<Field("password", <<"pw1">>)>>,
                   <<Field("old_password", <<"pw0">>)>>,
                   <<Field("refresh_token", <<"R1">>)>> } }

\* the parsed bodies extract_record_ids_from_response is called on
IdOnly(field, id) == JDict([f \in {field} |-> JStr(id)])
ListBodies ==
    << JDict([data |-> JList(<<Item(<<"u1">>), Item(<<"u2">>), Item(<<"u3">>)>>)]),
       JDict([records |-> JList(<<Item(<<"u1">>), Item(<<"u2">>)>>)]),
       JDict([items |-> JList(<<Item(<<"u1">>)>>)]),
       JDict([data |-> JList(<<Item(<<"u1">>), NoId, Item(<<"u3">>)>>)]),
       JDict([data |-> JList(<<Item(<<"u1">>)>>),
              records |-> JList(<<Item(<<"u2">>)>>)]),
       JDict([records |-> JList(<<Item(<<"u2">>)>>),
              items |-> JList(<<Item(<<"u3">>)>>)]),
       JDict([data |-> Item(<<"u0">>), records |-> JList(<<Item(<<"u1">>)>>)]),
       JDict([data |-> JList(<<>>), records |-> JList(<<Item(<<"u1">>)>>)]),
       JDict([data |-> JStr(<<"u0">>)]),
       NoId,
       JDict(<<>>),
       JList(<<Item(<<"u1">>)>>),
       JNull,
       JDict([data |-> JList([i \in 1..Len(ManyIds) |-> Item(ManyIds[i])])]),
       JDict([data |-> JList(<<NoId>> \o [i \in 1..Len(ManyIds) |-> Item(ManyIds[i])])]),
       JDict([data |-> JList(<<JStr(<<"u0">>), Item(<<"u1">>)>>)]),
       JDict([data |-> JList(<<IdOnly("_id", <<"u1">>), IdOnly("ulid", <<"u2">>),
                               IdOnly("uuid", <<"u3">>),
                               JDict([uuid |-> JStr(<<"u4">>), id |-> JStr(<<"u5">>)]),
                               JDict([ulid |-> JStr(<<"u6">>),
                                      _id |-> JStr(<<"u7">>)])>>)]) >>
MaxCounts == {1, 2, MaxCount}

\* the variables of run_test_suite before its first iteration
Parked ==
    /\ runner = "lib" /\ suite = <<>>
    /\ heap = [r \in 0..MaxTests |-> NoDict] /\ heap0 = heap
    /\ auth_state = AuthState /\ placeholder_context = PlaceholderContext
    /\ markdown_lines = <<>> /\ all_tests_passed = TRUE /\ idx = 1
    /\ test_copy = NoTest /\ new_password = None /\ response = NoResponse
    /\ sanitized_curl = <<>> /\ result = NoResult /\ calls = <<>>
    /\ last_relogin = "none" /\ relogin_token = None
    /\ files = <<>> /\ file = 0 /\ log = <<>>

LibInit ==
    /\ Parked
    /\ ret = None
    /\ \/ pc = "replace" /\ args \in [test : PlaceholderTests, context : Contexts]
       \/ pc = "extract"
          /\ \E k \in DOMAIN ExtractBodies : args = [response_obj |-> ExtractBodies[k]]
       \/ pc = "sanitize" /\ args \in SanitizeArgs
       \/ pc = "numbered" /\ args \in [text : NumberedTexts, record_ids : IdLists]
       \/ pc = "classify" /\ args \in [request : Requests]
       \/ pc = "extract ids"
          /\ \E k \in DOMAIN ListBodies, n \in MaxCounts :
                args = [list_response |-> ListBodies[k], max_count |-> n]

\* the call returned: nothing but pc and ret changes
Returned(value) ==
    /\ ret' = value
    /\ pc' = "returned"
    /\ UNCHANGED <<runner, suite, heap, auth_state, placeholder_context, markdown_lines,
                   all_tests_passed, idx, test_copy, new_password, response,
                   sanitized_curl, result, heap0, calls, last_relogin, relogin_token,
                   args, files, file, log>>

\* replace_record_placeholders(test, context): ret is [test, used], the test
\* as the call left it and the placeholder kind it returned
CallReplace == pc = "replace" /\ Returned(replace_record_placeholders(args.test, args.context))

\* extract_record_id_from_response(response_obj)
CallExtract == pc = "extract" /\ Returned(extract_record_id_from_response(args.response_obj))

\* sanitize_curl_for_documentation on the request of args; its output is
\* kept in sanitized_curl
CallSanitize ==
    /\ pc = "sanitize"
    /\ sanitized_curl' = sanitize_curl_for_documentation(args.curl_cmd, args.server_url,
                              args.doc_url, args.auth_state, args.record_id,
                              args.placeholder_type)
    /\ pc' = "sanitize again"
    /\ UNCHANGED <<runner, suite, heap, auth_state, placeholder_context, markdown_lines,
                   all_tests_passed, idx, test_copy, new_password, response, result,
                   heap0, calls, last_relogin, relogin_token, args, ret, files, file, log>>

\* sanitize_curl_for_documentation on its own output, the other arguments
\* being the same
CallSanitizeAgain ==
    /\ pc = "sanitize again"
    /\ Returned(sanitize_curl_for_documentation(sanitized_curl, args.server_url,
                     args.doc_url, args.auth_state, args.record_id,
                     args.placeholder_type))

\* _replace_numbered_placeholders(text, record_ids)
CallNumbered ==
    pc = "numbered" /\ Returned(replace_numbered_placeholders(args.text, args.record_ids))

\* detect_login, detect_token_refresh and detect_password_change on the
\* request of args
CallClassify ==
    /\ pc = "classify"
    /\ Returned([login |-> detect_login(args.request),
                 refresh |-> detect_token_refresh(args.request),
                 new_password |-> detect_password_change(args.request)])

\* extract_record_ids_from_response(response_obj, max_count), the response
\* being the list_response of args
CallExtractIds ==
    /\ pc = "extract ids"
    /\ Returned(extract_record_ids_from_response(args.list_response, args.max_count))

LibNext ==
    \/ CallReplace \/ CallExtract \/ CallSanitize \/ CallSanitizeAgain
    \/ CallNumbered \/ CallClassify \/ CallExtractIds

LibSpec == LibInit /\ [][LibNext]_vars

(***************************************************************************)
(* api-check.py: process_test_file checks the server's health, logs in if  *)
(* a test of the suite needs a token, and hands the suite to               *)
(* run_test_suite of scripts/api-test.                                     *)
(***************************************************************************)
\* TestSuite.username, .password
username == <<"admin">>
password == <<"pw0">>

check_if_auth_needed(tests, h) ==
    \E i \in 1..Len(tests) :
        /\ h[tests[i].headers] # NoDict /\ HasKey(h[tests[i].headers], "Authorization")
        /\ StrIn(<<"$ACCESS_TOKEN">>, Get(h[tests[i].headers], "Authorization"))

\* the state after load_test_suite: as at the start of run_test_suite, with
\* no AuthState yet
FileInit ==
    /\ runner = "api-test"
    /\ \E n \in 0..MaxTests : \E declared \in [1..n -> Tests] :
          /\ suite = [i \in 1..n |-> [declared[i] EXCEPT !.headers = i]]
          /\ heap = [r \in 0..MaxTests |->
                        IF r \in 1..n THEN declared[r].headers ELSE NoDict]
    /\ heap0 = heap
    /\ auth_state = AuthState /\ placeholder_context = PlaceholderContext
    /\ markdown_lines = <<>> /\ all_tests_passed = TRUE /\ idx = 1
    /\ pc = "health"
    /\ test_copy = NoTest /\ new_password = None /\ response = NoResponse
    /\ sanitized_curl = <<>> /\ result = NoResult /\ calls = <<>>
    /\ last_relogin = "none" /\ relogin_token = None
    /\ args = <<>> /\ ret = None
    /\ files = <<>> /\ file = 1 /\ log = <<>>

\* variant of Checked that goes on with an unhealthy server
CheckedGoingOn(is_healthy) ==
    /\ pc' = "login"
    /\ log' = IF is_healthy THEN log ELSE Append(log, Event(file, "unhealthy"))

\* lines 111-113: an unhealthy server is reported and the function returns
Checked(is_healthy) ==
    /\ pc' = IF is_healthy THEN "login" ELSE "skipped"
    /\ log' = IF is_healthy THEN log ELSE Append(log, Event(file, "unhealthy"))

\* lines 107-113
HealthCheck ==
    /\ pc = "health"
    /\ \E is_healthy \in BOOLEAN : Checked(is_healthy)
    /\ UNCHANGED <<runner, suite, heap, auth_state, placeholder_context, markdown_lines,
                   all_tests_passed, idx, test_copy, new_password, response,
                   sanitized_curl, result, heap0, calls, last_relogin, relogin_token,
                   args, ret, files, file>>

\* variant of EnterRunTestSuite with a PlaceholderContext that outlives the
\* call
EnterKeepingContext(given) ==
    /\ auth_state' = given
    /\ markdown_lines' = <<>>
    /\ all_tests_passed' = TRUE
    /\ placeholder_context' = placeholder_context
    /\ idx' = 1
    /\ pc' = "resolve"

\* the call of run_test_suite (api-check.py line 132) and the locals it
\* starts with (test_runner.py lines 51-57), given the auth_state argument
\* (None is the empty AuthState)
EnterRunTestSuite(given) ==
    /\ auth_state' = given
    /\ markdown_lines' = <<>>
    /\ all_tests_passed' = TRUE
    /\ placeholder_context' = PlaceholderContext
    /\ idx' = 1
    /\ pc' = "resolve"

\* lines 118-125, given the result of perform_login: without an AuthState
\* holding an access token the failure is reported and the function returns
LoggedIn(new_auth_state) ==
    /\ calls' = Append(calls, Call("login", 0, <<username, password>>))
    /\ IF new_auth_state.ok /\ Truthy(new_auth_state.st.access_token)
       THEN /\ EnterRunTestSuite(new_auth_state.st)
            /\ last_relogin' = "ok"
            /\ log' = log
       ELSE /\ auth_state' = new_auth_state.st
            /\ last_relogin' = "failed"
            /\ pc' = "skipped"
            /\ log' = Append(log, Event(file, "login failed"))
            /\ UNCHANGED <<markdown_lines, all_tests_passed, placeholder_context, idx>>

\* lines 115-132
InitialLogin ==
    /\ pc = "login"
    /\ IF check_if_auth_needed(suite, heap)
       THEN \E o \in DOMAIN LoginOutcomes :
               LoggedIn(perform_login(username, password, LoginOutcomes[o]))
       ELSE EnterRunTestSuite(AuthState) /\ UNCHANGED <<calls, last_relogin, log>>
    /\ UNCHANGED <<runner, suite, heap, test_copy, new_password, response,
                   sanitized_curl, result, heap0, relogin_token, args, ret, files, file>>

FileNext == HealthCheck \/ InitialLogin \/ Resolve \/ Execute \/ PostProcess \/ Finish

FileSpec == FileInit /\ [][FileNext]_vars

(***************************************************************************)
(* api-check.py, main: the suite files are processed one after another in  *)
(* one process. A variable of process_test_file or run_test_suite keeps    *)
(* the value the previous file left in it until the code assigns it.       *)
(***************************************************************************)
MaxFiles == 2

\* a suite file as load_test_suite finds it: ok FALSE is a file that cannot
\* be read as a suite (the call raises)
SuiteFile(ok, tests) == [ok |-> ok, tests |-> tests]
Shape(name) == CHOOSE t \in Shapes : t.name = name
SuiteFiles ==
    { SuiteFile(FALSE, <<>>),
      SuiteFile(TRUE, <<Shape(<<"login">>)>>),
      SuiteFile(TRUE, <<Shape(<<"create">>)>>),
      SuiteFile(TRUE, <<Shape(<<"get">>)>>),
      SuiteFile(TRUE, <<Shape(<<"create">>), Shape(<<"get">>)>>) }

MainInit ==
    /\ runner = "api-test" /\ suite = <<>>
    /\ heap = [r \in 0..MaxTests |-> NoDict] /\ heap0 = heap
    /\ auth_state = AuthState /\ placeholder_context = PlaceholderContext
    /\ markdown_lines = <<>> /\ all_tests_passed = TRUE /\ idx = 1
    /\ test_copy = NoTest /\ new_password = None /\ response = NoResponse
    /\ sanitized_curl = <<>> /\ result = NoResult /\ calls = <<>>
    /\ last_relogin = "none" /\ relogin_token = None
    /\ args = <<>> /\ ret = None
    /\ \E n \in 1..MaxFiles : files \in [1..n -> SuiteFiles]
    /\ file = 1 /\ log = <<>>
    /\ pc = "load"

\* load_test_suite (lines 45-72) on the file f; the history of calls is
\* kept per file
Loaded(f) ==
    IF f.ok
    THEN /\ suite' = [i \in 1..Len(f.tests) |-> [f.tests[i] EXCEPT !.headers = i]]
         /\ heap' = [r \in 0..MaxTests |->
                        IF r \in 1..Len(f.tests) THEN f.tests[r].headers ELSE NoDict]
         /\ heap0' = heap'
         /\ calls' = <<>> /\ last_relogin' = "none" /\ relogin_token' = None
         /\ pc' = "health"
    ELSE /\ pc' = "raised"
         /\ UNCHANGED <<suite, heap, heap0, calls, last_relogin, relogin_token>>

\* main line 149 and process_test_file line 100
LoadSuite ==
    /\ pc = "load" /\ file <= Len(files)
    /\ Loaded(files[file])
    /\ UNCHANGED <<runner, auth_state, placeholder_context, markdown_lines,
                   all_tests_passed, idx, test_copy, new_password, response,
                   sanitized_curl, result, args, ret, files, file, log>>

\* variant of Caught without the try: an exception ends the process
Uncaught ==
    /\ log' = log
    /\ file' = IF pc = "raised" THEN file ELSE file + 1
    /\ pc' = IF pc = "raised" THEN "exit" ELSE "load"

\* main lines 147-151: process_test_file returned or raised; an exception is
\* caught and reported, and the loop goes on to the next file
Caught ==
    /\ log' = IF pc = "raised" THEN Append(log, Event(file, "error")) ELSE log
    /\ file' = file + 1
    /\ pc' = "load"

NextFile ==
    /\ pc \in {"done", "skipped", "raised"}
    /\ Caught
    /\ UNCHANGED <<runner, suite, heap, auth_state, placeholder_context, markdown_lines,
                   all_tests_passed, idx, test_copy, new_password, response,
                   sanitized_curl, result, heap0, calls, last_relogin, relogin_token,
                   args, ret, files>>

\* main line 147: no file is left
Exit ==
    /\ pc = "load" /\ file > Len(files)
    /\ pc' = "exit"
    /\ UNCHANGED <<runner, suite, heap, auth_state, placeholder_context, markdown_lines,
                   all_tests_passed, idx, test_copy, new_password, response,
                   sanitized_curl, result, heap0, calls, last_relogin, relogin_token,
                   args, ret, files, file, log>>

MainNext ==
    \/ LoadSuite \/ HealthCheck \/ InitialLogin \/ Resolve \/ Execute \/ PostProcess
    \/ Finish \/ NextFile \/ Exit

MainSpec == MainInit /\ [][MainNext]_vars

(***************************************************************************)
(* One iteration of run_test_suite, statement by statement: the copy, the  *)
(* two substitutions in the order the runner makes them, the detection of  *)
(* a password change, the HTTP call and what follows it.                   *)
(***************************************************************************)
\* the state at the head of the loop, with or without a captured id
StepInit ==
    /\ runner \in {"api-test", "lib"}
    /\ \E declared \in Tests :
          /\ suite = <<[declared EXCEPT !.headers = 1]>>
          /\ heap = [r \in 0..MaxTests |-> IF r = 1 THEN declared.headers ELSE NoDict]
    /\ heap0 = heap
    /\ auth_state \in InitialAuth
    /\ placeholder_context \in
          {PlaceholderContext, set_record_id(PlaceholderContext, <<"v1">>, <<"$ULID">>)}
    /\ markdown_lines = <<>> /\ all_tests_passed = TRUE /\ idx = 1
    /\ pc = "copy"
    /\ test_copy = NoTest /\ new_password = None /\ response = NoResponse
    /\ sanitized_curl = <<>> /\ result = NoResult /\ calls = <<>>
    /\ last_relogin = "none" /\ relogin_token = None
    /\ args = <<>> /\ ret = None
    /\ files = <<>> /\ file = 0 /\ log = <<>>

\* the statement after the copy, after the auth substitution and after the
\* record substitution: api-test lines 61-91, lib lines 59-71
AfterCopy == IF runner = "api-test" THEN "auth" ELSE "record"
AfterAuth == IF runner = "api-test" THEN "record" ELSE "detect"
AfterRecord == IF runner = "api-test" THEN "detect" ELSE "auth"

\* api-test line 61, lib line 59
CopyTest ==
    /\ pc = "copy"
    /\ test_copy' = copy_test(suite[idx], heap).test
    /\ heap' = copy_test(suite[idx], heap).heap
    /\ pc' = AfterCopy
    /\ UNCHANGED <<runner, suite, auth_state, placeholder_context, markdown_lines,
                   all_tests_passed, idx, new_password, response, sanitized_curl,
                   result, heap0, calls, last_relogin, relogin_token, args, ret,
                   files, file, log>>

\* api-test line 64, lib line 68
SubstituteAuth ==
    /\ pc = "auth"
    /\ test_copy' = replace_auth_placeholders(test_copy, auth_state, heap).test
    /\ heap' = replace_auth_placeholders(test_copy, auth_state, heap).heap
    /\ pc' = AfterAuth
    /\ UNCHANGED <<runner, suite, auth_state, placeholder_context, markdown_lines,
                   all_tests_passed, idx, new_password, response, sanitized_curl,
                   result, heap0, calls, last_relogin, relogin_token, args, ret,
                   files, file, log>>

\* api-test lines 67-88 given the side-channel answer f (0: no call is
\* made), lib lines 62-65; the call is recorded with the headers it carries
RecordTo(r, f) ==
    /\ test_copy' = r.test
    /\ placeholder_context' = r.context
    /\ calls' = IF f = 0 THEN calls
                ELSE Append(calls, Call("fetch", idx,
                                <<extract_collection_name_from_test(test_copy),
                                  fetch_fresh_record_ids(FetchReplies[f]),
                                  heap[test_copy.headers]>>))

ResolveRecord ==
    /\ pc = "record"
    /\ IF runner = "api-test"
       THEN \E f \in (IF NeedsFetch(test_copy) THEN DOMAIN FetchReplies ELSE {0}) :
               RecordTo(RecordResolved([test |-> test_copy, heap |-> heap],
                                       placeholder_context,
                                       IF f = 0 THEN NoFetch ELSE FetchReplies[f]), f)
       ELSE RecordTo(StandingResolve(test_copy, placeholder_context), 0)
    /\ pc' = AfterRecord
    /\ UNCHANGED <<runner, suite, heap, auth_state, markdown_lines, all_tests_passed,
                   idx, new_password, response, sanitized_curl, result, heap0,
                   last_relogin, relogin_token, args, ret, files, file, log>>

\* api-test line 91, lib line 71
DetectPasswordChange ==
    /\ pc = "detect"
    /\ new_password' = detect_password_change(test_copy)
    /\ pc' = "execute"
    /\ UNCHANGED <<runner, suite, heap, auth_state, placeholder_context, markdown_lines,
                   all_tests_passed, idx, test_copy, response, sanitized_curl, result,
                   heap0, calls, last_relogin, relogin_token, args, ret, files, file,
                   log>>

StepNext ==
    \/ CopyTest \/ SubstituteAuth \/ ResolveRecord \/ DetectPasswordChange
    \/ Execute \/ PostProcess

StepSpec == StepInit /\ [][StepNext]_vars

(***************************************************************************)
(* Properties                                                              *)
(***************************************************************************)
\* the tests whose iteration is complete
Done == SubSeq(suite, 1, idx - 1)
Named(tests) == SelectSeq(tests, LAMBDA t : Truthy(t.name))

\* the calls of one kind, in the order they were made
CallsOf(op) == SelectSeq(calls, LAMBDA c : c.op = op)
\* the status the executor returned for test i
StatusOf(i) ==
    LET k == CHOOSE k \in DOMAIN calls : calls[k].op = "execute" /\ calls[k].i = i
    IN  calls[k].arg[1]

IsHeading(line) == Len(line) >= 1 /\ line[1] = "### "

\* C1: the transcript holds exactly one entry per named test, in suite
\* order, and none for an unnamed test: its headings are the names of the
\* named tests processed so far, each followed by the three blocks of its
\* entry, and the returned markdown is the transcript joined by newlines.
C1_TranscriptIsNamedTests ==
    LET named == Named(Done)
    IN  /\ Len(markdown_lines) = 4 * Len(named)
        /\ \A j \in 1..Len(named) :
              /\ markdown_lines[4 * j - 3] = <<"### ">> \o named[j].name
              /\ markdown_lines[4 * j - 2][1] = "~~~bash"
              /\ markdown_lines[4 * j - 1][1] = "**Response ("
              /\ markdown_lines[4 * j][1] = "~~~json"
        /\ SelectSeq(markdown_lines, IsHeading)
              = [j \in 1..Len(named) |-> <<"### ">> \o named[j].name]
        /\ pc = "done" => result.markdown = Join(markdown_lines, 1)

\* a finished run of an unnamed test followed by a named one
C1_Witness ==
    /\ pc = "done" /\ Len(suite) = 2
    /\ ~Truthy(suite[1].name) /\ Truthy(suite[2].name)
    /\ Len(markdown_lines) = 4

\* C2: the verdict is success exactly when every named test's status begins
\* with '2'; a failing unnamed test never flips it.
C2_VerdictCountsNamedOnly ==
    pc = "done" =>
        /\ result.all_tests_passed
              <=> \A i \in 1..Len(suite) :
                     Truthy(suite[i].name) => StartsWith2(StatusOf(i))
        /\ result.status = IF result.all_tests_passed THEN <<"success">>
                           ELSE <<"failure">>

\* the same, for the variant of scripts/api-test only
C2_VerdictApiTest == runner = "api-test" => C2_VerdictCountsNamedOnly

\* C3: the HTTP executor is invoked exactly once per test, in suite order,
\* no test is skipped, and the loop eventually returns a TestResult.
ExecutedInOrder ==
    LET executed == CallsOf("execute")
    IN  /\ Len(executed) = IF pc = "post" THEN idx ELSE idx - 1
        /\ \A k \in 1..Len(executed) : executed[k].i = k
        /\ pc = "done" => Len(executed) = Len(suite)
C3_ExecutedOnceEach == []ExecutedInOrder /\ <>(pc = "done")

\* a finished run whose first test failed and whose second was still executed
C3_Witness ==
    /\ pc = "done" /\ Len(suite) = 2
    /\ ~StartsWith2(StatusOf(1)) /\ Len(CallsOf("execute")) = 2

IsPrefix(a, b) == Len(a) <= Len(b) /\ SubSeq(b, 1, Len(a)) = a
NoDuplicates(l) == \A i, j \in DOMAIN l : l[i] = l[j] => i = j

\* C4: the token histories never lose an element (each later list extends
\* the earlier one) and never hold the same token twice, whatever logins,
\* refreshes and re-logins the run makes.
C4_HistoriesOnlyGrow ==
    [][/\ IsPrefix(auth_state.all_access_tokens, auth_state'.all_access_tokens)
       /\ IsPrefix(auth_state.all_refresh_tokens, auth_state'.all_refresh_tokens)
       /\ NoDuplicates(auth_state'.all_access_tokens)
       /\ NoDuplicates(auth_state'.all_refresh_tokens)]_vars

\* two named logins were both answered with the tokens A1 and R1, and the
\* histories hold them once
C4_Witness ==
    /\ idx = 3 /\ detect_login(suite[1]) /\ detect_login(suite[2])
    /\ Len(markdown_lines) = 8
    /\ StrIn(<<"A1">>, markdown_lines[4]) /\ StrIn(<<"A1">>, markdown_lines[8])
    /\ \E k \in DOMAIN auth_state.all_access_tokens :
          auth_state.all_access_tokens[k] = <<"A1">>

\* C5: running a suite never changes the suite definition: the header dict
\* of every declared test is what it was before the run, whatever was
\* substituted in the executed copies (endpoint and body of a declared test
\* are never assigned: the code rebinds them on the copy only).
C5_SuiteUnchanged == \A i \in 1..Len(suite) : heap[i] = heap0[i]

\* the copy of a test went out with the token in its header while the
\* declared header still holds the placeholder
C5_Witness ==
    /\ pc = "execute"
    /\ HasKey(heap0[idx], "Authorization")
    /\ Get(heap[CopyRef], "Authorization") = <<"Bearer ", "A0">>
    /\ Get(heap[idx], "Authorization") = <<"Bearer ", "$ACCESS_TOKEN">>

\* the test whose iteration has just been completed
Last == idx - 1
Completed == pc \in {"resolve", "done"} /\ idx > 1

\* C6: the sanitized request of a named test, as written to the transcript,
\* contains no access or refresh token of AuthState's history (rotated
\* tokens included), and a header declared as Bearer $ACCESS_TOKEN is shown
\* as Bearer $ACCESS_TOKEN.
C6_SanitizedRequestHidesTokens ==
    (Completed /\ Truthy(suite[Last].name)) =>
        /\ \A k \in DOMAIN auth_state.all_access_tokens :
              ~StrIn(auth_state.all_access_tokens[k], sanitized_curl)
        /\ \A k \in DOMAIN auth_state.all_refresh_tokens :
              ~StrIn(auth_state.all_refresh_tokens[k], sanitized_curl)
        /\ markdown_lines[Len(markdown_lines) - 2]
              = <<"~~~bash">> \o sanitized_curl \o <<"~~~">>
        /\ HasKey(heap0[Last], "Authorization") =>
              StrIn(<<"Authorization", ": ", "Bearer ", "$ACCESS_TOKEN", Q>>,
                    sanitized_curl)

\* a named refresh went out with the token A0 and rotated it; its sanitized
\* request shows the placeholder
C6_Witness ==
    /\ Completed /\ Truthy(suite[Last].name) /\ detect_token_refresh(suite[Last])
    /\ auth_state.all_access_tokens = << <<"A0">>, <<"A1">> >>
    /\ StrIn(<<"Bearer ", "A0">>, response.curl_command)
    /\ StrIn(<<"Bearer ", "$ACCESS_TOKEN">>, sanitized_curl)

\* C7: no access or refresh token that was current at some point of the run
\* (every such token is in the histories) occurs anywhere in the transcript
\* returned in TestResult.markdown.
C7_NoTokenInTranscript ==
    pc = "done" =>
        /\ \A k \in DOMAIN auth_state.all_access_tokens :
              ~StrIn(auth_state.all_access_tokens[k], result.markdown)
        /\ \A k \in DOMAIN auth_state.all_refresh_tokens :
              ~StrIn(auth_state.all_refresh_tokens[k], result.markdown)

\* the bare token $ULID: not the head of a numbered placeholder $ULID<N>
HasBare(text) ==
    \E i \in 1..Len(text) :
        text[i] = "$ULID" /\ (i = Len(text) \/ text[i + 1] \notin Digits)
DeclaresBare(test) == HasBare(test.endpoint) \/ HasBare(json_dumps(test.data))
DeclaresOther(test) ==
    \/ test_needs_numbered_placeholders(test)
    \/ \E ph \in {<<"$NEXT_CURSOR">>, <<"$PREV_CURSOR">>} :
          StrIn(ph, test.endpoint) \/ StrIn(ph, json_dumps(test.data))

\* the declared request of test i, as documentation shows it
DeclaredCurl(i) ==
    build_curl_command(docURL \o prefix \o suite[i].endpoint, Upper(suite[i].cmd),
                       heap0[i], suite[i].data)

\* the round trip of the request in flight, given that an id is captured
RoundTrip ==
    /\ ~HasBare(test_copy.endpoint) /\ ~HasBare(json_dumps(test_copy.data))
    /\ sanitized_curl' = DeclaredCurl(idx)

\* C8: once an id v is captured, every later test whose declared endpoint or
\* body contains the bare token $ULID is sent with no bare $ULID left, and
\* its sanitized request is the declared request under the display URL.
C8_CapturedIdRoundTrip ==
    [][(/\ pc = "post" /\ Truthy(placeholder_context.captured_record_id)
        /\ DeclaresBare(suite[idx])) => RoundTrip]_vars

\* the same for the tests that declare $ULID and no other record placeholder
C8_BareOnlyRoundTrip ==
    [][(/\ pc = "post" /\ Truthy(placeholder_context.captured_record_id)
        /\ DeclaresBare(suite[idx]) /\ ~DeclaresOther(suite[idx])) => RoundTrip]_vars

\* test i is a password change that was answered 2xx
PasswordChanged(i) ==
    Truthy(detect_password_change(suite[i])) /\ StartsWith2(StatusOf(i))

\* the login with the current username and the new password was issued in
\* iteration i, before any call of a later iteration
ReloginIssued(i) ==
    \E k \in DOMAIN calls :
        /\ calls[k] = Call("login", i, <<auth_state.current_username,
                                         detect_password_change(suite[i])>>)
        /\ \A m \in DOMAIN calls : calls[m].i > i => m > k

\* the request in flight carries the given access token
SentWithToken(token) ==
    HasKey(heap0[idx], "Authorization") =>
        Get(heap[CopyRef], "Authorization") = <<"Bearer ">> \o token

UsesReloginToken == (pc = "execute" /\ Truthy(relogin_token)) => SentWithToken(relogin_token)

C10_FailedReloginChangesNothing ==
    /\ [][(pc = "post" /\ last_relogin' = "failed") =>
              /\ auth_state' = auth_state
              /\ pc' = "resolve" /\ idx' = idx + 1]_vars
    /\ []((pc = "execute" /\ last_relogin = "failed") =>
              SentWithToken(auth_state.access_token))
    /\ (last_relogin = "failed") ~> (pc = "done" /\ ExecutedInOrder)

\* the re-login of the first test failed and the second test went out with A0
C10_Witness ==
    /\ pc = "post" /\ idx = 2 /\ last_relogin = "failed" /\ PasswordChanged(1)
    /\ auth_state.current_password = <<"pw0">>
    /\ Get(heap[CopyRef], "Authorization") = <<"Bearer ", "A0">>

\* the test is classified as a login or a token refresh
LoginOrRefresh(test) == detect_login(test) \/ detect_token_refresh(test)

\* the token a structured body carries under key: the one under its "data"
\* object when it has one, else the top-level one (None: it carries none)
Carried(json, key) ==
    IF Has(json, "data") /\ IsDict(json.jv["data"])
    THEN GetVal(json.jv["data"], key) ELSE GetVal(json, key)

\* the response in hand answers a login or refresh test with 2xx and carries
\* a token under key
TokenArrived(key) ==
    /\ pc = "post" /\ LoginOrRefresh(suite[idx]) /\ StartsWith2(response.status)
    /\ Truthy(Carried(response.response_obj, key))

\* the request in flight has its auth placeholders resolved to the current
\* tokens of AuthState
SentWithCurrentTokens ==
    /\ (Truthy(auth_state.access_token) /\ HasKey(heap0[idx], "Authorization")) =>
          Get(heap[CopyRef], "Authorization")
             = StrReplace(Get(heap0[idx], "Authorization"), <<"$ACCESS_TOKEN">>,
                          auth_state.access_token)
    /\ (Truthy(auth_state.refresh_token) /\ HasKey(suite[idx].data, "refresh_token")) =>
          Get(test_copy.data, "refresh_token")
             = StrReplace(Get(suite[idx].data, "refresh_token"), <<"$REFRESH_TOKEN">>,
                          auth_state.refresh_token)

\* one step takes the arriving tokens, and replaces a current token only in
\* the iteration of a login, a refresh or a successful re-login
TokensTaken ==
    /\ TokenArrived("access_token") =>
          /\ auth_state'.access_token = Carried(response.response_obj, "access_token")
          /\ InList(auth_state'.access_token, auth_state'.all_access_tokens)
    /\ TokenArrived("refresh_token") =>
          /\ auth_state'.refresh_token = Carried(response.response_obj, "refresh_token")
          /\ InList(auth_state'.refresh_token, auth_state'.all_refresh_tokens)
    /\ (\/ auth_state'.access_token # auth_state.access_token
        \/ auth_state'.refresh_token # auth_state.refresh_token) =>
          /\ pc = "post"
          /\ LoginOrRefresh(suite[idx]) \/ last_relogin' = "ok"

\* C11: when a login or refresh test is answered 2xx with a structured body
\* carrying an access token T and/or a refresh token R (top-level, or under
\* the "data" object), T/R becomes the current token and is in the history;
\* every test is sent with $ACCESS_TOKEN / $REFRESH_TOKEN resolved to the
\* current token; and a current token is only replaced in the iteration of a
\* login, a refresh or a successful re-login.
C11_TokensTakenAndUsed ==
    /\ [][TokensTaken]_vars
    /\ [](pc = "execute" => SentWithCurrentTokens)

\* a login was answered with A1 and R1 under "data" while A0 was current; the
\* refresh test after it goes out with A1 in its header and R1 in its body
C11_Witness ==
    /\ pc = "execute" /\ idx = 2 /\ detect_login(suite[1])
    /\ detect_token_refresh(suite[2])
    /\ auth_state.all_access_tokens = << <<"A0">>, <<"A1">> >>
    /\ Get(heap[CopyRef], "Authorization") = <<"Bearer ", "A1">>
    /\ Get(test_copy.data, "refresh_token") = <<"R1">>

\* what is to stand where $NEXT_CURSOR was declared, for a context
NextCursorValue(context) ==
    IF context.cursors_initialized
    THEN (IF Truthy(context.next_cursor) THEN context.next_cursor ELSE <<"$NEXT_CURSOR">>)
    ELSE (IF Truthy(context.captured_record_id) THEN context.captured_record_id
          ELSE <<"$NEXT_CURSOR">>)

\* the atoms that follow the marker "after=" in a text
AfterMarker(text) ==
    SelectSeq([i \in 1..Len(text) |->
                  IF i > 1 /\ text[i - 1] = "after=" THEN text[i] ELSE ""],
              LAMBDA a : a # "")

\* C12: replace_record_placeholders resolves $NEXT_CURSOR (declared after
\* "after=" in the endpoint and as the body field "after") to the next-page
\* cursor whenever cursor state is initialized, also when a single record id
\* is captured, and to the single record id only when cursor state is not
\* initialized; with no value to use the placeholder stays as declared.
C12_NextCursorPrecedence ==
    (pc = "returned" /\ "context" \in DOMAIN args) =>
        LET value == NextCursorValue(args.context)
        IN  /\ Len(AfterMarker(ret.test.endpoint)) = Len(AfterMarker(args.test.endpoint))
            /\ \A k \in DOMAIN AfterMarker(ret.test.endpoint) :
                  <<AfterMarker(ret.test.endpoint)[k]>> = value
            /\ HasKey(args.test.data, "after") =>
                  /\ HasKey(ret.test.data, "after")
                  /\ Get(ret.test.data, "after") = value

\* both a next-page cursor and a single record id were available and the
\* cursor was used
C12_Witness ==
    /\ pc = "returned" /\ "context" \in DOMAIN args
    /\ args.context.cursors_initialized
    /\ args.context.next_cursor = <<"c2">> /\ args.context.captured_record_id = <<"v1">>
    /\ StrIn(<<"after=", "$NEXT_CURSOR", "&id=", "$ULID">>, args.test.endpoint)
    /\ StrIn(<<"after=", "c2", "&id=", "v1">>, ret.test.endpoint)

\* the number of places where p occurs in text
Occurrences(p, text) == Cardinality({i \in 1..Len(text) : IsAt(text, i, p)})

\* the numbered placeholder $ULID<n> stands in the returned test wherever it
\* was declared, in the endpoint and in the serialised body
LeftAsDeclared(n) ==
    /\ Occurrences(<<"$ULID", n>>, ret.test.endpoint)
          = Occurrences(<<"$ULID", n>>, args.test.endpoint)
    /\ Occurrences(<<"$ULID", n>>, json_dumps(ret.test.data))
          = Occurrences(<<"$ULID", n>>, json_dumps(args.test.data))

\* C13: whatever the single captured id and the cursors of the context, a
\* numbered placeholder $ULID<N> with N greater than the number of captured
\* identifiers is left exactly as declared in the endpoint and in the body.
C13_OutOfRangeLeftAlone ==
    (pc = "returned" /\ "context" \in DOMAIN args) =>
        \A n \in {"1", "2", "3"} :
            IntOf(<<n>>) > Len(args.context.captured_record_ids) => LeftAsDeclared(n)

\* the same for the contexts that hold no single captured id
C13_LeftAloneWithoutSingleId ==
    (pc = "returned" /\ "context" \in DOMAIN args
     /\ ~Truthy(args.context.captured_record_id)) =>
        \A n \in {"1", "2", "3"} :
            IntOf(<<n>>) > Len(args.context.captured_record_ids) => LeftAsDeclared(n)

\* element i of the list holds the identifier id
HoldsId(list, i, id) ==
    IsDict(list.jv[i]) /\ Has(list.jv[i], "id") /\ Val(list.jv[i].jv["id"]) = id

\* C14: when the identifier extract_record_id_from_response returns is that
\* of an element of a list of the body (under data, records or items), it is
\* the identifier of the second element if the list has at least two
\* elements, and of the first element if it has exactly one.
C14_SecondElementOfList ==
    (pc = "returned" /\ "response_obj" \in DOMAIN args /\ ret # None) =>
        \A key \in {"data", "records", "items"} :
            LET list == args.response_obj.jv[key]
            IN  (/\ Has(args.response_obj, key) /\ IsList(list)
                 /\ \E i \in DOMAIN list.jv : HoldsId(list, i, ret)) =>
                    IF Len(list.jv) >= 2 THEN HoldsId(list, 2, ret)
                    ELSE HoldsId(list, 1, ret)

\* the body {"data": [{"id": "u1"}, {"id": "u2"}, {"id": "u3"}]} gave u2
C14_Witness ==
    /\ pc = "returned" /\ "response_obj" \in DOMAIN args /\ ret = <<"u2">>
    /\ Has(args.response_obj, "data") /\ IsList(args.response_obj.jv["data"])
    /\ Len(args.response_obj.jv["data"].jv) = 3

\* C15: sanitization is idempotent: for every request, server URL, display
\* URL, token history and captured id, sanitize_curl_for_documentation
\* applied to its own output with the same arguments returns that output.
C15_SanitizeIdempotent ==
    (pc = "returned" /\ "curl_cmd" \in DOMAIN args) => ret = sanitized_curl

\* the same for the display URLs in which the server URL does not occur
C15_IdempotentForDisjointUrls ==
    (pc = "returned" /\ "curl_cmd" \in DOMAIN args
     /\ ~StrIn(args.server_url, args.doc_url)) => ret = sanitized_curl

\* the declared endpoint denotes a create or list operation
CreateOrList(test) ==
    StrIn(<<":", "create">>, test.endpoint) \/ StrIn(<<":", "list">>, test.endpoint)

\* C16: the single captured record id is write-once: it changes only from
\* unset to set, and only in the iteration of a create or list test whose
\* response has a status beginning with '2' and a structured body; once set
\* it is never cleared or replaced.
C16_CapturedIdWriteOnce ==
    [][placeholder_context'.captured_record_id # placeholder_context.captured_record_id =>
          /\ ~Truthy(placeholder_context.captured_record_id)
          /\ Truthy(placeholder_context'.captured_record_id)
          /\ pc = "post" /\ StartsWith2(response.status)
          /\ JTruthy(response.response_obj) /\ CreateOrList(suite[idx])]_vars

\* v1 was captured from a create response; the list response after it would
\* have given v2, and v1 is still the captured id
C16_Witness ==
    /\ pc = "resolve" /\ idx = 3
    /\ StrIn(<<":", "create">>, suite[1].endpoint) /\ StrIn(<<":", "list">>, suite[2].endpoint)
    /\ StartsWith2(response.status)
    /\ extract_record_id_from_response(response.response_obj) = <<"v2">>
    /\ placeholder_context.captured_record_id = <<"v1">>

\* the response in hand carries a "meta" object with "next"/"prev" fields
CarriesCursors ==
    /\ IsDict(response.response_obj) /\ Has(response.response_obj, "meta")
    /\ IsDict(response.response_obj.jv["meta"])
    /\ Has(response.response_obj.jv["meta"], "next")
    /\ Has(response.response_obj.jv["meta"], "prev")

\* C17: after a test whose response carries a "meta" object with "next" and
\* "prev" fields, the context's next and previous cursors are those values
\* and cursor state is marked initialized, whether or not a record id was
\* captured in the same iteration.
C17_CursorsTakenFromMeta ==
    [][(pc = "post" /\ CarriesCursors) =>
          /\ placeholder_context'.next_cursor
                = extract_cursors_from_response(response.response_obj).next
          /\ placeholder_context'.prev_cursor
                = extract_cursors_from_response(response.response_obj).prev
          /\ placeholder_context'.cursors_initialized]_vars

\* what the runners do: cursor state is never initialized
C17_CursorsNeverInitialized ==
    /\ ~placeholder_context.cursors_initialized
    /\ placeholder_context.next_cursor = None /\ placeholder_context.prev_cursor = None

\* the HTTP call of the test in hand failed in transport or timed out
TransportFailed == response.status = <<"ERROR">>

\* the executor answers a transport failure with the exception text as body
\* and no parsed body, and an HTTP reply with the status the server sent
ErrorCarriesExceptionText ==
    pc = "execute" =>
        IF response'.status = <<"ERROR">>
        THEN response'.body = Replies[1].text /\ response'.response_obj = JNull
        ELSE \E k \in DOMAIN Replies : response'.status = Replies[k].status

\* the iteration of a failed call changes neither AuthState nor the captured
\* id, fails the run if the test is named, and moves on to the next test
ErrorIsOrdinaryFailure ==
    (pc = "post" /\ TransportFailed) =>
        /\ auth_state' = auth_state
        /\ placeholder_context'.captured_record_id = placeholder_context.captured_record_id
        /\ Truthy(suite[idx].name) => ~all_tests_passed'
        /\ pc' = "resolve" /\ idx' = idx + 1

\* C18: a transport failure or timeout of a test's HTTP call yields status
\* ERROR with the exception text as body; the iteration leaves AuthState and
\* the captured id unchanged and counts as a failure if the test is named;
\* and the next test of the suite, if there is one, is executed.
C18_TransportFailureIsRecorded ==
    /\ [][ErrorCarriesExceptionText /\ ErrorIsOrdinaryFailure]_vars
    /\ \A i \in 1..MaxTests :
          (pc = "post" /\ idx = i /\ TransportFailed /\ i < Len(suite))
             ~> (Len(CallsOf("execute")) > i)

\* the call of a named first test timed out, the second test was executed
\* and answered 2xx, and the run returned a failure
C18_Witness ==
    /\ pc = "done" /\ Len(suite) = 2 /\ Truthy(suite[1].name)
    /\ StatusOf(1) = <<"ERROR">> /\ StartsWith2(StatusOf(2))
    /\ StrIn(<<"~~~json", "timed out", "~~~">>, result.markdown)
    /\ ~result.all_tests_passed

\* the side-channel list call made for test i gave no identifiers
FetchFailed(i) ==
    \E k \in DOMAIN calls :
        calls[k].op = "fetch" /\ calls[k].i = i /\ calls[k].arg[2] = <<>>

\* the copy in hand has the declared endpoint and the declared body, the
\* auth placeholders apart
SentAsDeclared ==
    /\ test_copy.endpoint = suite[idx].endpoint
    /\ test_copy.data = replace_auth_placeholders(suite[idx], auth_state, heap).test.data

\* C19: when the side-channel list call of a test with numbered placeholders
\* fails (exception, status other than 200, no identifiers in the body), the
\* fetch yields the empty list, the test is sent exactly once with its record
\* placeholders as declared, and the loop goes on to the end of the suite.
C19_FailedFetchLeavesPlaceholders ==
    /\ []((pc \in {"execute", "post"} /\ FetchFailed(idx)) =>
             (SentAsDeclared /\ test_needs_numbered_placeholders(test_copy)))
    /\ []ExecutedInOrder
    /\ \A i \in 1..MaxTests :
          (pc = "execute" /\ idx = i /\ FetchFailed(i))
             ~> (pc = "done" /\ Len(CallsOf("execute")) = Len(suite))

\* the list call of a named first test gave nothing, the test went out with
\* $ULID1,$ULID2 in its body, and the second test was executed
C19_Witness ==
    /\ pc = "done" /\ Len(suite) = 2 /\ FetchFailed(1) /\ Truthy(suite[1].name)
    /\ StrIn(<<"$ULID", "1", ",", "$ULID", "2">>, result.markdown)
    /\ Len(CallsOf("execute")) = 2

\* C20: a failure of the suite's initial login does not abort the suite:
\* process_test_file goes on to run_test_suite, which executes the tests
\* without a token.
C20_FailedInitialLoginGoesOn ==
    [][(pc = "login" /\ last_relogin' = "failed") => pc' = "resolve"]_vars

\* what process_test_file does: after a failed initial login no test of the
\* suite is executed
C20_FailedInitialLoginSkipsSuite ==
    (last_relogin = "failed" /\ idx = 1 /\ pc \notin {"resolve", "execute", "post"}) =>
        (pc = "skipped" /\ CallsOf("execute") = <<>>)

\* the AuthState the initial login of the current suite produced: that of a
\* successful perform_login if a test of the suite needs a token, an empty
\* one if none does
OwnLoginOnly ==
    IF check_if_auth_needed(suite, heap)
    THEN \E o \in DOMAIN LoginOutcomes :
            /\ LoginOutcomes[o].ok
            /\ auth_state = perform_login(username, password, LoginOutcomes[o]).st
    ELSE auth_state = AuthState

\* C21: when several suites are processed one after another in one process,
\* each run of run_test_suite starts with an empty PlaceholderContext, with
\* no transcript line and with an AuthState holding only what the suite's own
\* initial login produced.
C21_EachSuiteStartsFresh ==
    (pc = "resolve" /\ idx = 1) =>
        /\ placeholder_context = PlaceholderContext
        /\ markdown_lines = <<>>
        /\ OwnLoginOnly

\* the second suite starts after a first one that captured a record id, or
\* after a first one whose login test obtained tokens
C21_Witness ==
    /\ file = 2 /\ pc = "resolve" /\ idx = 1
    /\ log = <<Event(1, "written")>>
    /\ \/ /\ StrIn(<<"create">>, test_copy.endpoint)
          /\ response.response_obj = Item(<<"v1">>)
          /\ check_if_auth_needed(suite, heap)
       \/ /\ StrIn(<<"login">>, test_copy.endpoint)
          /\ response.response_obj = JDict([data |-> Tokens(<<"A1">>, <<"R1">>)])
          /\ ~check_if_auth_needed(suite, heap)

\* C22: whatever list of suite files is given, each file is attempted, in
\* the order given: a file that raises, an unhealthy server or a failed login
\* is reported and every remaining file is still processed. Each file leaves
\* one entry in the log: the failure reported for it or the output written.
C22_EveryFileAttempted ==
    pc = "exit" =>
        /\ Len(log) = Len(files)
        /\ \A f \in 1..Len(files) :
              /\ log[f].file = f
              /\ ~files[f].ok => log[f].event = "error"

\* a file that ran to its end after one that raised, was found unhealthy or
\* could not log in
C22_Witness ==
    /\ pc = "exit" /\ Len(files) = 2
    /\ log[1].event \in {"error", "unhealthy", "login failed"}
    /\ log[2].event = "written"

\* the file being processed was found unhealthy
Unhealthy == log # <<>> /\ log[Len(log)] = Event(file, "unhealthy")

\* C23: a suite whose server fails the health check is skipped entirely: no
\* login is attempted, no test is executed and no output file is written for
\* it.
C23_UnhealthySuiteIsSkipped ==
    /\ Unhealthy => (pc = "skipped" /\ calls = <<>>)
    /\ \A k \in DOMAIN log :
          log[k].event = "unhealthy" =>
              \A j \in DOMAIN log : log[j].file = log[k].file => j = k

\* the second file is skipped after a first one that was run
C23_Witness == Unhealthy /\ file = 2 /\ log[1] = Event(1, "written")

\* the names a test may carry instead of its own; the test under another name
OtherNames == {<<>>, <<"renamed">>}
Renamed(test, name) == [test EXCEPT !.name = name]

\* the resolved copy of the test t, given the side-channel answer f
ResolvedAs(t, f) ==
    IF runner = "api-test"
    THEN ResolveApiTest(t, auth_state, placeholder_context, heap,
                        IF f = 0 THEN NoFetch ELSE FetchReplies[f])
    ELSE ResolveLib(t, auth_state, placeholder_context, heap)

\* lines 59-91 of the current test under the name n: the same side-channel
\* call, and on the same answer the same request, headers and contexts
ResolvesAlike(n) ==
    /\ FetchDue(Renamed(suite[idx], n), auth_state, heap)
          = FetchDue(suite[idx], auth_state, heap)
    /\ \A f \in FetchChoices :
          (/\ Resolved(f).test = test_copy'
           /\ Resolved(f).heap = heap'
           /\ Resolved(f).context = placeholder_context')
          => /\ ResolvedAs(Renamed(suite[idx], n), f).test = Renamed(test_copy', n)
             /\ ResolvedAs(Renamed(suite[idx], n), f).heap = heap'
             /\ ResolvedAs(Renamed(suite[idx], n), f).context = placeholder_context'
             /\ detect_password_change(Renamed(test_copy', n)) = new_password'

\* lines 93-98 under the name n: on the same answer the same request is sent
\* and the same response comes back
ExecutesAlike(n) ==
    \A k \in DOMAIN Replies :
        execute_request(serverURL, prefix, test_copy, heap, Replies[k]) = response'
        => execute_request(serverURL, prefix, Renamed(test_copy, n), heap, Replies[k])
              = response'

\* lines 100-141 under the name n: on the same answer to the re-login, if
\* one is made, the same AuthState and PlaceholderContext
AuthAfter(t, o) ==
    IF o = 0 THEN ApplyTokens(t, response, auth_state)
    ELSE ApplyRelogin(ApplyTokens(t, response, auth_state), new_password,
                      LoginOutcomes[o])
PostProcessesAlike(n) ==
    /\ ReloginChoices(ApplyTokens(Renamed(test_copy, n), response, auth_state))
          = ReloginChoices(ApplyTokens(test_copy, response, auth_state))
    /\ \A o \in ReloginChoices(ApplyTokens(test_copy, response, auth_state)) :
          AuthAfter(test_copy, o) = auth_state'
          => AuthAfter(Renamed(test_copy, n), o) = auth_state'
    /\ Capture(Renamed(test_copy, n), response, placeholder_context)
          = placeholder_context'

NameBlindStep ==
    \A n \in OtherNames :
        /\ (pc = "resolve" /\ pc' = "execute") => ResolvesAlike(n)
        /\ (pc = "execute" /\ pc' = "post") => ExecutesAlike(n)
        /\ (pc = "post" /\ pc' = "resolve") => PostProcessesAlike(n)

\* C24: the name of a test influences only the transcript and the verdict:
\* had the current test any other name (or none), every step of its iteration
\* would, on the same answers, send the same requests and leave the same
\* AuthState and PlaceholderContext.
C24_NameInfluencesOnlyTranscript == [][NameBlindStep]_vars

\* an unnamed create has left its record id in the context, a named login
\* its tokens in the AuthState
C24_Witness ==
    /\ pc = "resolve" /\ idx = 3
    /\ ~Truthy(suite[1].name) /\ StrIn(<<":", "create">>, suite[1].endpoint)
    /\ placeholder_context.captured_record_id = <<"v1">>
    /\ Truthy(suite[2].name) /\ detect_login(suite[2])
    /\ auth_state.access_token = <<"A1">>

\* the text with each $ULID<N>, 1 <= N <= Len(ids), replaced by the N-th
\* identifier and everything else as it is (from position i on)
RECURSIVE NthForEach(_, _, _)
NthForEach(text, ids, i) ==
    IF i > Len(text) THEN <<>>
    ELSE IF text[i] = "$ULID" /\ DigitRun(text, i + 1) # <<>>
         THEN (IF IntOf(DigitRun(text, i + 1)) \in 1..Len(ids)
               THEN ids[IntOf(DigitRun(text, i + 1))]
               ELSE <<"$ULID">> \o DigitRun(text, i + 1))
              \o NthForEach(text, ids, i + 1 + Len(DigitRun(text, i + 1)))
         ELSE <<text[i]>> \o NthForEach(text, ids, i + 1)

\* C25: for every text and every identifier list, each occurrence of
\* $ULID<N> with 1 <= N <= length of the list is replaced by exactly the N-th
\* identifier, independently of the other numbered tokens of the text,
\* multi-digit N such as $ULID10 next to $ULID1 included.
C25_EachNumberedTokenGetsItsId ==
    (pc = "returned" /\ DOMAIN args = {"text", "record_ids"}) =>
        ret = NthForEach(args.text, args.record_ids, 1)

\* the numbers of the numbered tokens of a text, in order
Numbers(text) == FindNumbered(text, 1)

\* no numbered token of the text is the head of another one
NoTokenHeadsAnother(text) ==
    \A a, b \in DOMAIN Numbers(text) :
        IsPrefix(Numbers(text)[a], Numbers(text)[b]) => Numbers(text)[a] = Numbers(text)[b]

\* what the function does: the tokens get their identifiers when none of
\* them is the head of another
C25_ExactWhenNoTokenHeadsAnother ==
    (pc = "returned" /\ DOMAIN args = {"text", "record_ids"}
     /\ NoTokenHeadsAnother(args.text)) =>
        ret = NthForEach(args.text, args.record_ids, 1)

\* the step is the resolution of a test for which the side-channel call is
\* made; the identifiers the call gave
FetchMade == pc = "resolve" /\ pc' = "execute" /\ Len(calls') > Len(calls)
Fetched(c) == c.arg[2]

\* the identifier occurs in the endpoint or the body of the test
Shows(id, test) ==
    \/ StrIn(id, test.endpoint)
    \/ test.data # NoDict /\ StrIn(id, json_dumps(test.data))

\* an identifier only the side-channel call gives is in the resolved test
\* only if the call made for this very test gave it
OwnFetchOnly ==
    pc \in {"execute", "post"} =>
        \A n \in DOMAIN ManyIds :
            Shows(ManyIds[n], test_copy) =>
                \E k \in DOMAIN calls :
                    /\ calls[k].op = "fetch" /\ calls[k].i = idx
                    /\ \E j \in DOMAIN Fetched(calls[k]) :
                          Fetched(calls[k])[j] = ManyIds[n]

ScopedFetch ==
    /\ FetchMade => /\ placeholder_context' = placeholder_context
                    /\ Len(Fetched(calls'[Len(calls')])) <= MaxCount
    /\ OwnFetchOnly'

\* C26: the identifiers fetched by the side-channel list call for a test
\* with numbered placeholders are scoped to that test: the resolution leaves
\* the standing PlaceholderContext as it is, at most 10 identifiers are
\* seeded, and no later test is resolved with identifiers fetched for an
\* earlier one.
C26_FetchedIdsScopedToTest == [][ScopedFetch]_vars

\* a second test with numbered placeholders whose own call failed, after a
\* first one resolved with the first 10 of 11 records
C26_Witness ==
    /\ pc = "execute" /\ idx = 2
    /\ Len(calls) = 3 /\ calls[1].op = "fetch" /\ calls[1].i = 1
    /\ Len(Fetched(calls[1])) = MaxCount
    /\ calls[3].op = "fetch" /\ calls[3].i = 2 /\ Fetched(calls[3]) = <<>>
    /\ Shows(<<"$ULID", "1">>, test_copy)

\* the number of places where the token stands in the endpoint and the body
\* of a test
Count(token, test) ==
    Occurrences(<<token>>, test.endpoint)
    + (IF test.data = NoDict THEN 0 ELSE Occurrences(<<token>>, json_dumps(test.data)))

\* the resolved copy holds the token wherever the declared test does
Literal(token) == Count(token, test_copy) = Count(token, suite[idx])

\* no identifier was fetched for the current test
NothingFetched ==
    \A k \in DOMAIN calls :
        (calls[k].op = "fetch" /\ calls[k].i = idx) => Fetched(calls[k]) = <<>>

\* C27: for each placeholder kind, when its source value is absent, every
\* occurrence of the token is left as literal text in the request that is
\* sent: $ACCESS_TOKEN without an access token, $REFRESH_TOKEN without a
\* refresh token, $PREV_CURSOR without a previous cursor, $NEXT_CURSOR with
\* neither a next cursor nor a captured id to fall back on, $ULID and
\* $ULID<N> with neither a captured id nor an identifier list.
C27_AbsentSourceLeavesToken ==
    pc = "execute" =>
        /\ ~Truthy(auth_state.access_token) =>
              heap[test_copy.headers] = heap0[suite[idx].headers]
        /\ ~Truthy(auth_state.refresh_token) => Literal("$REFRESH_TOKEN")
        /\ ~Truthy(placeholder_context.prev_cursor) => Literal("$PREV_CURSOR")
        /\ (~Truthy(placeholder_context.next_cursor)
            /\ ~Truthy(placeholder_context.captured_record_id)) => Literal("$NEXT_CURSOR")
        /\ (~Truthy(placeholder_context.captured_record_id)
            /\ placeholder_context.captured_record_ids = <<>>
            /\ NothingFetched) => Literal("$ULID")

\* a request that declares all the kinds but $REFRESH_TOKEN is about to be
\* sent with no token, no cursor and no identifier at hand, after a refresh
\* without a refresh token
C27_Witness ==
    /\ pc = "execute" /\ idx = 2
    /\ auth_state = AuthState /\ placeholder_context = PlaceholderContext
    /\ Count("$REFRESH_TOKEN", suite[1]) = 1
    /\ Count("$NEXT_CURSOR", test_copy) = 1 /\ Count("$PREV_CURSOR", test_copy) = 1
    /\ Count("$ULID", test_copy) = 1
    /\ StrIn(<<"$ACCESS_TOKEN">>, Get(heap[test_copy.headers], "Authorization"))

\* the record identifiers the server hands out
RecordIds ==
    {<<"v1">>, <<"v2">>} \cup {ManyIds[n] : n \in DOMAIN ManyIds}

\* the last completed test is named and its resolution put the identifier
\* into the request
ResolvedInto(id) ==
    /\ pc = "resolve" /\ idx > 1 /\ Truthy(suite[idx - 1].name)
    /\ Shows(id, test_copy) /\ ~Shows(id, suite[idx - 1])

\* C28: for every named test whose placeholders were resolved to record
\* identifiers obtained at run time (the captured identifier or the fresh
\* identifiers fetched for numbered placeholders), the sanitized request
\* shows a placeholder token in place of each such identifier: no run-time
\* identifier appears in the documented request.
C28_NoRunTimeIdDocumented ==
    \A id \in RecordIds : ResolvedInto(id) => ~StrIn(id, sanitized_curl)

\* what the sanitizer does: the captured identifier never appears in the
\* documented request
C28_CapturedIdNotDocumented ==
    \A id \in RecordIds :
        (ResolvedInto(id) /\ id = placeholder_context.captured_record_id)
        => ~StrIn(id, sanitized_curl)

\* the object under a wrapper key of the body, the selected element of the
\* list under a key (the second of two or more, else the first): null when
\* there is none
Under(body, wrapper) ==
    IF Has(body, wrapper) /\ IsDict(body.jv[wrapper]) THEN body.jv[wrapper] ELSE JNull
Selected(body, key) ==
    IF Has(body, key) /\ IsList(body.jv[key]) /\ Len(body.jv[key].jv) > 0
    THEN body.jv[key].jv[IF Len(body.jv[key].jv) > 1 THEN 2 ELSE 1]
    ELSE JNull

\* a place an identifier may be found at: is the field there, and its value
Place(obj, key) == [there |-> Has(obj, key), val |-> GetVal(obj, key)]
Cursor(obj) == [there |-> Truthy(GetVal(obj, "next")), val |-> GetVal(obj, "next")]

\* the places of a body, in the order of the search
Places(body) ==
    << Place(body, "id"),
       Place(Under(body, "data"), "id"),
       Place(Under(body, "record"), "id"),
       Place(Selected(body, "data"), "id"),
       Place(Selected(body, "records"), "id"),
       Place(Selected(body, "items"), "id"),
       Cursor(Under(body, "meta")),
       Place(body, "_id"), Place(Under(body, "data"), "_id"),
       Place(body, "ulid"), Place(Under(body, "data"), "ulid"),
       Place(body, "uuid"), Place(Under(body, "data"), "uuid") >>

\* C29: extract_record_id_from_response returns the first available
\* identifier in this order: top-level id; id under a data object; id under a
\* record object; id of the selected element of a data, records or items
\* list; the next cursor under meta; an alternate field (_id, ulid, uuid) at
\* top level or under data; and nothing when none of these is there.
C29_FirstAvailableIdentifier ==
    (pc = "returned" /\ "response_obj" \in DOMAIN args) =>
        LET places == Places(args.response_obj)
        IN  /\ \A k \in DOMAIN places :
                  (places[k].there /\ \A j \in 1..(k - 1) : ~places[j].there)
                  => ret = places[k].val
            /\ (\A k \in DOMAIN places : ~places[k].there) => ret = None

\* the cursor under meta was returned though the body has an _id
C29_Witness ==
    /\ pc = "returned" /\ "response_obj" \in DOMAIN args
    /\ Has(args.response_obj, "_id") /\ ret = <<"c2">>

\* the request is a POST, in whatever case; its endpoint holds the path of
\* the auth action; its body has the field
IsPost(request) == request.cmd \in {<<"POST">>, <<"post">>}
Denotes(request, action) == StrIn(<<"/", "auth", ":", action>>, request.endpoint)
Supplies(request, field) == \E i \in DOMAIN request.data : request.data[i].k = field

\* C30: classification depends only on the request: a test is a login iff
\* its method is POST (in any case) and its endpoint denotes /auth:login, a
\* token refresh iff POST and /auth:refresh, a password change iff POST,
\* /auth:me and a body with both old_password and password, whose password
\* value is the new password; every other test is ordinary.
C30_ClassifiedByRequest ==
    (pc = "returned" /\ "request" \in DOMAIN args) =>
        /\ ret.login <=> (IsPost(args.request) /\ Denotes(args.request, "login"))
        /\ ret.refresh <=> (IsPost(args.request) /\ Denotes(args.request, "refresh"))
        /\ ret.new_password =
              IF /\ IsPost(args.request) /\ Denotes(args.request, "me")
                 /\ Supplies(args.request, "old_password")
                 /\ Supplies(args.request, "password")
              THEN <<"pw1">> ELSE None

\* a lower-case post to /auth:me with both passwords gave the new password,
\* and is neither a login nor a refresh
C30_Witness ==
    /\ pc = "returned" /\ "request" \in DOMAIN args
    /\ args.request.cmd = <<"post">> /\ Denotes(args.request, "me")
    /\ ret = [login |-> FALSE, refresh |-> FALSE, new_password |-> <<"pw1">>]

\* the statements of an iteration in the order the claim gives them
InOrder ==
    pc' # pc =>
        <<pc, pc'>> \in { <<"copy", "auth">>, <<"auth", "record">>, <<"record", "detect">>,
                          <<"detect", "execute">>, <<"execute", "post">>,
                          <<"post", "resolve">> }

\* tokens, re-login and identifier capture come after the HTTP call only
AppliedAfterExecution ==
    pc # "post" =>
        /\ auth_state' = auth_state
        /\ placeholder_context'.captured_record_id = placeholder_context.captured_record_id

\* the side-channel call made in this step carries the access token, not
\* the placeholder
FetchCarriesToken ==
    (Len(calls') > Len(calls) /\ calls'[Len(calls')].op = "fetch"
     /\ Truthy(auth_state.access_token)) =>
        \A i \in DOMAIN calls'[Len(calls')].arg[3] :
            ~StrIn(<<"$ACCESS_TOKEN">>, calls'[Len(calls')].arg[3][i].v)

OrderedIteration == InOrder /\ AppliedAfterExecution /\ FetchCarriesToken

\* C31: in every iteration auth placeholders are substituted first, then
\* record placeholders are resolved (the side-channel call, if any, with the
\* substituted headers), then the password change is detected, then the HTTP
\* call is made, and only then are tokens, re-login and identifier capture
\* applied; the side-channel call never carries a literal $ACCESS_TOKEN when
\* an access token is available.
C31_StepsInOrder == [][OrderedIteration]_vars

\* what run_test_suite of scripts/api-test does: the order above
C31_StepsInOrderInApiTest == [][runner = "api-test" => OrderedIteration]_vars

\* the request is a login, a token refresh or a password change
AuthEvent(request) ==
    /\ IsPost(request)
    /\ \/ Denotes(request, "login")
       \/ Denotes(request, "refresh")
       \/ /\ Denotes(request, "me")
          /\ Supplies(request, "old_password") /\ Supplies(request, "password")

\* an iteration whose test is ordinary or did not get a 2xx response leaves
\* AuthState as it is
AuthStateKept ==
    (pc = "post" /\ pc' = "resolve"
     /\ (~AuthEvent(test_copy) \/ ~StartsWith2(response.status)))
    => auth_state' = auth_state

\* C32: AuthState is changed only by login, refresh and password-change
\* events: an iteration whose test is ordinary, or whose login, refresh or
\* password-change test did not get a 2xx response, leaves the current
\* tokens, the credentials and the token histories exactly as they were.
C32_AuthStateChangedOnlyByAuthEvents == [][AuthStateKept]_vars

\* an ordinary test was answered 200 with tokens in the body, and the
\* AuthState of the initial login is still there
C32_Witness ==
    /\ pc = "resolve" /\ idx = 2
    /\ ~AuthEvent(test_copy) /\ StartsWith2(response.status)
    /\ response.response_obj = JDict([data |-> Tokens(<<"A1">>, <<"R1">>)])
    /\ auth_state.all_access_tokens = << <<"A0">> >>

\* the response in hand is a 2xx whose body could not be parsed
OpaqueSuccess == StartsWith2(response.status) /\ response.response_obj = JNull

\* the body is kept as the text the server sent, and the transcript entry of
\* a named test shows it
RecordedAsText ==
    /\ response.body = <<"plain text">>
    /\ Truthy(suite[idx].name) =>
          \E k \in DOMAIN markdown_lines' :
              k > Len(markdown_lines) /\ StrIn(response.body, markdown_lines'[k])

TokensKept ==
    /\ auth_state'.access_token = auth_state.access_token
    /\ auth_state'.refresh_token = auth_state.refresh_token
    /\ auth_state'.all_access_tokens = auth_state.all_access_tokens
    /\ auth_state'.all_refresh_tokens = auth_state.all_refresh_tokens

CapturedIdKept ==
    placeholder_context'.captured_record_id = placeholder_context.captured_record_id

OpaqueSuccessChangesNothing ==
    (pc = "post" /\ pc' = "resolve" /\ OpaqueSuccess) =>
        /\ RecordedAsText
        /\ all_tests_passed' = all_tests_passed
        /\ TokensKept
        /\ CapturedIdKept

\* C33: a 2xx response whose body cannot be parsed as structured data is
\* recorded as opaque text and counts as a success, and the iteration changes
\* neither the tokens of AuthState nor the captured identifier, whatever the
\* test.
C33_OpaqueSuccessChangesNothing == [][OpaqueSuccessChangesNothing]_vars

OpaqueSuccessOfOtherThanPasswordChange ==
    (pc = "post" /\ pc' = "resolve" /\ OpaqueSuccess) =>
        /\ RecordedAsText
        /\ all_tests_passed' = all_tests_passed
        /\ new_password = None => TokensKept
        /\ CapturedIdKept

\* C33, amended: ... and the iteration changes neither the captured
\* identifier nor, unless the test is a password change (whose re-login is
\* still made and may bring new tokens), the tokens of AuthState, even when
\* the test is a login, refresh, create or list request.
C33_OpaqueSuccessKeepsTokensUnlessPasswordChange ==
    [][OpaqueSuccessOfOtherThanPasswordChange]_vars

\* a named login or create was answered 200 with a body that is no JSON
C33_Witness ==
    /\ pc = "resolve" /\ idx = 2 /\ OpaqueSuccess
    /\ Truthy(suite[1].name)
    /\ detect_login(test_copy) \/ StrIn(<<":", "create">>, test_copy.endpoint)
    /\ all_tests_passed
    /\ placeholder_context.captured_record_id = None

\* the number of logins issued by the step
LoginsMade == Len(calls') - Len(calls)

\* the test in hand was classified as a password change before it ran and
\* its response status begins with "2"
ChangedPassword == new_password # None /\ StartsWith2(response.status)

ReloginExactlyAfterPasswordChange ==
    (pc = "post" /\ pc' = "resolve") =>
        /\ LoginsMade \in {0, 1}
        /\ LoginsMade = 1 <=> ChangedPassword

\* C34: a re-login is attempted in an iteration if and only if the test was
\* classified as a password change before execution and its response status
\* begins with "2"; at most one is attempted per iteration, and none after a
\* failed or ordinary test.
C34_ReloginIffPasswordChanged == [][ReloginExactlyAfterPasswordChange]_vars

ReloginExactlyForKnownUser ==
    (pc = "post" /\ pc' = "resolve") =>
        /\ LoginsMade \in {0, 1}
        /\ LoginsMade = 1 <=>
              /\ ChangedPassword
              /\ Truthy(new_password) /\ Truthy(auth_state.current_username)
        /\ LoginsMade = 1 =>
              calls'[Len(calls')] =
                  Call("login", idx, <<auth_state.current_username, new_password>>)

\* C34, amended: a re-login is attempted in an iteration if and only if the
\* test was classified as a password change (with a non-empty new password)
\* before execution, its response status begins with "2" and AuthState holds
\* a current username; at most one is attempted per iteration, and none
\* after a failed or ordinary test.
C34_ReloginIffPasswordChangedByKnownUser == [][ReloginExactlyForKnownUser]_vars

\* a password change was answered 2xx and its one re-login has been made;
\* the test before it was an ordinary one and brought none
C34_Witness ==
    /\ pc = "resolve" /\ idx = 3 /\ PasswordChanged(2) /\ ~PasswordChanged(1)
    /\ last_relogin # "none"
    /\ Len(SelectSeq(calls, LAMBDA c : c.op = "login")) = 1

\* the AuthState perform_login builds from the answer o to the re-login of
\* the step
ReloginState(o) ==
    perform_login(auth_state.current_username, new_password, LoginOutcomes[o]).st

CredentialsKept ==
    /\ auth_state'.current_username = auth_state.current_username
    /\ auth_state'.current_password = auth_state.current_password

\* the step made a re-login that succeeded
ReloginSucceeded == pc = "post" /\ pc' = "resolve" /\ last_relogin' = "ok"

\* the credentials are those of the re-login that has just succeeded, and
\* no other step touches them
CredentialsOfLatestLogin ==
    IF ReloginSucceeded
    THEN /\ auth_state'.current_password = new_password
         /\ auth_state'.current_username = auth_state.current_username
    ELSE CredentialsKept

TokensOfLatestLogin ==
    ReloginSucceeded =>
        \E o \in DOMAIN LoginOutcomes :
            /\ LoginOutcomes[o].ok
            /\ auth_state'.access_token = ReloginState(o).access_token
            /\ auth_state'.refresh_token = ReloginState(o).refresh_token

Answered(o) ==
    /\ LoginOutcomes[o].ok
    /\ IF Truthy(LoginOutcomes[o].access)
       THEN relogin_token' = LoginOutcomes[o].access
       ELSE relogin_token' \in {None, relogin_token}

\* a token the answer carries becomes the current one, a token it lacks
\* leaves the current one as it was
TokenTaken(new, old, returned) == new = IF Truthy(returned) THEN returned ELSE old

ReturnedTokensBecomeCurrent ==
    ReloginSucceeded =>
        \E o \in DOMAIN LoginOutcomes :
            /\ Answered(o)
            /\ TokenTaken(auth_state'.access_token, auth_state.access_token,
                          ReloginState(o).access_token)
            /\ TokenTaken(auth_state'.refresh_token, auth_state.refresh_token,
                          ReloginState(o).refresh_token)

C36_CurrentTokensAreTracked ==
    /\ Truthy(auth_state.access_token) =>
          InList(auth_state.access_token, auth_state.all_access_tokens)
    /\ Truthy(auth_state.refresh_token) =>
          InList(auth_state.refresh_token, auth_state.all_refresh_tokens)

\* the run has replaced both tokens it started with, and the histories hold
\* the old and the new ones
C36_Witness ==
    /\ pc = "resolve" /\ idx > 1
    /\ Truthy(auth_state.access_token) /\ auth_state.access_token # <<"A0">>
    /\ Truthy(auth_state.refresh_token) /\ auth_state.refresh_token # <<"R0">>
    /\ Len(auth_state.all_access_tokens) = 2
    /\ Len(auth_state.all_refresh_tokens) = 2

\* the call of replace_record_placeholders at hand changed the endpoint or
\* the body it was given
Substituted == ret'.test.endpoint # args.test.endpoint \/ ret'.test.data # args.test.data

ReportsWhatItSubstituted ==
    (pc = "replace" /\ pc' = "returned") => (Truthy(ret'.used) <=> Substituted)

\* C37: replace_record_placeholders reports a placeholder kind if and only
\* if it substituted at least one token in the endpoint or body, and none
\* when the test contains no resolvable placeholder.
C37_KindReportedIffSubstituted == [][ReportsWhatItSubstituted]_vars

\* the same for the calls whose context holds no identifier list
C37_KindReportedIffSubstitutedWithoutIdList ==
    [][(pc = "replace" /\ pc' = "returned" /\ args.context.captured_record_ids = <<>>)
           => (Truthy(ret'.used) <=> Substituted)]_vars

\* in the runner the resolution of record placeholders changes the kind
\* remembered in PlaceholderContext only when it changed the endpoint or
\* the body
C37_RunnerKeepsKindWithoutSubstitution ==
    [][(/\ pc = "record"
        /\ placeholder_context'.placeholder_type # placeholder_context.placeholder_type)
           => (test_copy'.endpoint # test_copy.endpoint \/ test_copy'.data # test_copy.data)]_vars

\* the identifiers of the records that have an identifier field, in the
\* order of the records
WithId(records) == SelectSeq(records, LAMBDA r : RecordId(r).hit)
IdsOf(records) == [i \in 1..Len(WithId(records)) |-> RecordId(WithId(records)[i]).val]

FirstRecords(records, n) == SubSeq(records, 1, IF Len(records) < n THEN Len(records) ELSE n)

\* the well-known fields of the body that hold an array, and those that
\* are present at all, in the order data, records, items
WellKnown == <<"data", "records", "items">>
ArrayFields(obj) == SelectSeq(WellKnown, LAMBDA k : Has(obj, k) /\ IsList(obj.jv[k]))
PresentFields(obj) == SelectSeq(WellKnown, LAMBDA k : Has(obj, k))

\* the call at hand returned the identifiers of the records of field k: in
\* response order, one per record that has an identifier field, those of
\* the first max_count records and so at most max_count
IdsOfField(k) ==
    /\ Len(ret') <= args.max_count
    /\ IsPrefix(ret', IdsOf(args.list_response.jv[k].jv))
    /\ ret' = IdsOf(FirstRecords(args.list_response.jv[k].jv, args.max_count))

IdsOfFirstArrayField ==
    (pc = "extract ids" /\ pc' = "returned") =>
        IF ~IsDict(args.list_response) \/ ArrayFields(args.list_response) = <<>>
        THEN ret' = <<>>
        ELSE IdsOfField(Head(ArrayFields(args.list_response)))

C38_IdsOfFirstPresentField ==
    [][(pc = "extract ids" /\ pc' = "returned") =>
          IF \/ ~IsDict(args.list_response) \/ PresentFields(args.list_response) = <<>>
             \/ ~IsList(args.list_response.jv[Head(PresentFields(args.list_response))])
          THEN ret' = <<>>
          ELSE IdsOfField(Head(PresentFields(args.list_response)))]_vars

=============================================================================
